---------------------------- MODULE Spec2Model ----------------------------
(***************************************************************************)
(* A model of the core of the pepper editor: the client-event codec        *)
(* (lib/client_event.rs), the server's connection manager                  *)
(* (src/connection.rs), and the incremental syntax highlighter             *)
(* (src/syntax.rs) as driven by the client (src/client.rs).                *)
(*                                                                         *)
(* The module holds several specifications over one set of variables; a    *)
(* specification moves the variables of its own subsystem and leaves the   *)
(* others at their initial values:                                         *)
(*   SpecCodec  key and event (de)serialization, key display and parsing   *)
(*   SpecConn   accept / receive_keys / send / close / unregister          *)
(*   SpecQuit   the same server up to and with its quit-all teardown       *)
(*   SpecFair   the server serving clients that keep sending keys          *)
(*   SpecHl     Client::on_editor_operation driving HighlightedBuffer      *)
(*   SpecParse  Syntax::parse_line applied to one line                     *)
(*   SpecTry    the `try` command applied to one command line              *)
(*   SpecExec   clients running the `execute-keys` command                 *)
(*   SpecMode   keys given to command mode and the modes around it         *)
(*   SpecQuitCmd  the `quit` and `quit-all` commands                       *)
(*   SpecLsp    the lsp-start, lsp-stop and lsp-stop-all commands          *)
(*   SpecRead   receive_keys / receive_operations, one read at a time      *)
(*   SpecAccept accept and unregister on a table that has empty slots      *)
(*   SpecNav    a client's navigation history: snapshots, moves, removals  *)
(*   SpecDiag   publishDiagnostics notifications given to an lsp client    *)
(*   SpecPool   the builtin commands that use the editor's string pool     *)
(*   SpecMap    the `map` command applied to one command line              *)
(***************************************************************************)
EXTENDS Integers, Sequences, FiniteSets, TLC

VARIABLES
    \* ---- codec (lib/client_event.rs)
    key,            \* the Key under test
    key_bytes,      \* bytes written by serialize_key, followed by key_trail
    key_trail,      \* bytes that follow the key in the stream
    key_de,         \* result of deserialize_key on key_bytes
    key_text,       \* text written by Display for Key
    key_parsed,     \* result of parse_key on key_text
    event,          \* the ClientEvent under test
    event_bytes,    \* bytes written by ClientEvent::serialize, then event_trail
    event_trail,    \* bytes that follow the event in the stream
    event_de,       \* result of ClientEvent::deserialize on event_bytes
    \* ---- connection manager (src/connection.rs)
    connections,                \* Vec<Option<ConnectionWithClient>>: 0 = None, else a stream
    closed_connection_indexes,  \* Vec<usize> (0-based indexes)
    read_buf,                   \* the collection's ReadBuf: [cap, len, position]
    registry,                   \* event registry: set of <<StreamId, stream>>
    stream,                     \* per stream: the socket as the server sees it
    last_accept,                \* what the latest accept_connection returned
    read_buf_users,             \* the streams that were read into read_buf so far
    quit_all,                   \* whether the quit-all teardown has run
    turns,                      \* per handle: the parity of the turns the loop gave it
    unregistered,               \* per stream: the unregister_stream calls made for it
    \* ---- client and highlighter (src/client.rs, src/syntax.rs)
    buffer,         \* Client::buffer: the lines of the BufferContent
    lines,          \* HighlightedBuffer::lines
    syntax_handle,  \* Client::syntax_handle: 0 = None, else an index of Syntaxes
    last_op,        \* the latest operation given to on_editor_operation
    ops,            \* how many operations on_editor_operation was given
    fix_stopped,    \* the line at which the latest fix_highlight_from stopped early
    last_range,     \* the range the latest Insert or Delete was about
    \* ---- Syntax::parse_line applied to one line (src/syntax.rs)
    p_syntax,       \* the Syntax under test: an index of ParseSyntaxes
    p_line,         \* the line given to parse_line
    p_previous,     \* the previous_line_kind given to parse_line
    p_out,          \* what parse_line left: [run, again, state, tokens, held]
    \* ---- the `try` command (src/command/builtin.rs)
    t_bang,         \* whether the command was written with a bang
    t_values,       \* the values that follow the command name
    t_out,          \* what the command left: [run, res, calls, trace]
    \* ---- the `execute-keys` command (src/command/builtin.rs)
    editor,         \* the Editor: its mode, each client's buffer and pending operations
    exec_last,      \* the latest execute-keys command line and its result
    exec_count,     \* how many execute-keys commands ran
    \* ---- command mode (src/mode/command.rs)
    editor_mode,    \* the editor's Mode; Command carries its FromMode in from_mode
    from_mode,      \* the FromMode command mode was entered with
    ctx_input,      \* ctx.input: the text typed in command mode
    mode_last,      \* the latest key, the mode it was given to, the Operation returned
    mode_keys,      \* how many keys were handled
    \* ---- the `quit` and `quit-all` commands (src/command/builtin.rs)
    q_clients,      \* ctx.clients.iter().count()
    q_needs_save,   \* per buffer of the editor: whether it has unsaved changes
    q_args,         \* the command's arguments: [bang, flags, values]
    q_out,          \* what the command left: [run, cmd, res]
    \* ---- the lsp commands (src/command/builtin.rs, src/lsp/client.rs)
    lsp_entries,    \* the lsp clients by handle: 0 = None, else the root the client serves
    lsp_last,       \* the latest lsp command: [cmd, buffer, before, res]
    lsp_count,      \* how many lsp commands ran
    \* ---- one call of receive_keys / receive_operations
    rd_buf,         \* the ReadBuf: [cap, len, position, data]
    rd_pc,          \* where the call is
    rd_fn,          \* the function called
    rd_wire,        \* the bytes pending on the stream
    rd_result,      \* what the latest call returned
    rd_last,        \* the latest step
    rd_calls,       \* the calls so far
    rd_seen,        \* the latest call: the bytes it read, the events it dispatched
    \* ---- a client's navigation history (src/navigation_history.rs)
    nav_client,     \* the client: [navigation_history, current_buffer_view_handle, cursors]
    nav_last,       \* the latest call on the history
    nav_removed,    \* the buffers removed from the history and not snapshotted since
    \* ---- the diagnostics of an lsp client (src/lsp/client.rs)
    diag_collections,  \* DiagnosticCollection::buffer_diagnostics
    diag_last,         \* the latest publishDiagnostics notification: [uri, diagnostics]
    diag_count,        \* how many notifications arrived
    \* ---- the editor's string pool under the builtin commands (src/command/builtin.rs)
    string_pool,    \* editor.string_pool: [free, made]
    pool_last,      \* the latest command: [command, given, res]
    pool_count,     \* how many commands ran
    \* ---- the `map` command (src/command/builtin.rs)
    map_flags,      \* the mode flags given
    map_from,       \* <from>: [text, token]
    map_to,         \* <to>: [text, token]
    map_out         \* what the command left: [run, res, which, token]

codecVars == <<key, key_bytes, key_trail, key_de, key_text, key_parsed,
               event, event_bytes, event_trail, event_de>>
connVars  == <<connections, closed_connection_indexes, read_buf, registry,
               stream, last_accept, read_buf_users, quit_all, turns, unregistered>>
hlVars    == <<buffer, lines, syntax_handle, last_op, ops, fix_stopped, last_range>>
parseVars == <<p_syntax, p_line, p_previous, p_out>>
tryVars   == <<t_bang, t_values, t_out>>
execVars  == <<editor, exec_last, exec_count>>
modeVars  == <<editor_mode, from_mode, ctx_input, mode_last, mode_keys>>
quitVars == <<q_clients, q_needs_save, q_args, q_out>>
lspVars == <<lsp_entries, lsp_last, lsp_count>>
readVars == <<rd_buf, rd_pc, rd_fn, rd_wire, rd_result, rd_last, rd_calls, rd_seen>>
navVars == <<nav_client, nav_last, nav_removed>>
diagVars == <<diag_collections, diag_last, diag_count>>
poolVars == <<string_pool, pool_last, pool_count>>
mapVars == <<map_flags, map_from, map_to, map_out>>
vars      == <<codecVars, connVars, hlVars, parseVars, tryVars, execVars, modeVars,
               quitVars,
               lspVars,
               readVars,
               navVars,
               diagVars,
               poolVars,
               mapVars>>

\* What the actions of one subsystem leave alone.
codecRest == <<connVars, hlVars, parseVars, tryVars, execVars, modeVars,
               quitVars,
               lspVars,
               readVars,
               navVars,
               diagVars,
               poolVars,
               mapVars>>
connRest  == <<codecVars, hlVars, parseVars, tryVars, execVars, modeVars,
               quitVars,
               lspVars,
               readVars,
               navVars,
               diagVars,
               poolVars,
               mapVars>>
hlRest    == <<codecVars, connVars, parseVars, tryVars, execVars, modeVars,
               quitVars,
               lspVars,
               readVars,
               navVars,
               diagVars,
               poolVars,
               mapVars>>
parseRest == <<codecVars, connVars, hlVars, tryVars, execVars, modeVars,
               quitVars,
               lspVars,
               readVars,
               navVars,
               diagVars,
               poolVars,
               mapVars>>
tryRest   == <<codecVars, connVars, hlVars, parseVars, execVars, modeVars,
               quitVars,
               lspVars,
               readVars,
               navVars,
               diagVars,
               poolVars,
               mapVars>>
execRest  == <<codecVars, connVars, hlVars, parseVars, tryVars, modeVars,
               quitVars,
               lspVars,
               readVars,
               navVars,
               diagVars,
               poolVars,
               mapVars>>
modeRest  == <<codecVars, connVars, hlVars, parseVars, tryVars, execVars,
               quitVars,
               lspVars,
               readVars,
               navVars,
               diagVars,
               poolVars,
               mapVars>>
quitRest == <<codecVars, connVars, hlVars, parseVars, tryVars, execVars, modeVars,
               lspVars,
               readVars,
               navVars,
               diagVars,
               poolVars,
               mapVars>>
lspRest == <<codecVars, connVars, hlVars, parseVars, tryVars, execVars, modeVars, quitVars,
               readVars,
               navVars,
               diagVars,
               poolVars,
               mapVars>>
readRest == <<codecVars, connVars, hlVars, parseVars, tryVars, execVars, modeVars, quitVars, lspVars,
               navVars,
               diagVars,
               poolVars,
               mapVars>>
navRest == <<codecVars, connVars, hlVars, parseVars, tryVars, execVars, modeVars, quitVars, lspVars, readVars,
               diagVars,
               poolVars,
               mapVars>>
diagRest == <<codecVars, connVars, hlVars, parseVars, tryVars, execVars, modeVars, quitVars, lspVars, readVars, navVars,
               poolVars,
               mapVars>>
poolRest == <<codecVars, connVars, hlVars, parseVars, tryVars, execVars, modeVars, quitVars, lspVars, readVars, navVars, diagVars,
               mapVars>>
mapRest == <<codecVars, connVars, hlVars, parseVars, tryVars, execVars, modeVars, quitVars, lspVars, readVars, navVars, diagVars, poolVars>>

(***************************************************************************)
(* Generic helpers.                                                        *)
(***************************************************************************)
Range(f) == {f[i] : i \in DOMAIN f}

IsPrefix(s, t) == Len(s) <= Len(t) /\ SubSeq(t, 1, Len(s)) = s

Drop(s, n) == SubSeq(s, n + 1, Len(s))

Take(s, n) == SubSeq(s, 1, n)

Min(a, b) == IF a <= b THEN a ELSE b

Max(a, b) == IF a >= b THEN a ELSE b

(***************************************************************************)
(* Part 1.  The client-event codec.                                        *)
(*                                                                         *)
(* A char is its Unicode scalar value; a text is a sequence of chars; a    *)
(* byte stream is a sequence of numbers in 0..255.                         *)
(***************************************************************************)

\* ---- the Key type (crate::platform::Key, as matched by serialize_key)
NamedKinds == <<"None", "Backspace", "Enter", "Left", "Right", "Up", "Down",
                "Home", "End", "PageUp", "PageDown", "Tab", "Delete">>

MkKey(kind, arg) == [kind |-> kind, arg |-> arg]

KeyNone == MkKey("None", 0)

\* ---- primitive encodings (crate::serialization, described in spec 4.B)
u8_serialize(n) == <<n>>

u16_serialize(n) == <<n % 256, (n \div 256) % 256>>

u32_serialize(n) ==
    <<n % 256, (n \div 256) % 256, (n \div 65536) % 256, (n \div 16777216) % 256>>

char_serialize(c) == u32_serialize(c)

DeOk(val, rest) == [run |-> TRUE, ok |-> TRUE, val |-> val, rest |-> rest]

DeErr(dflt) == [run |-> TRUE, ok |-> FALSE, val |-> dflt, rest |-> <<>>]

NotRun(dflt) == [run |-> FALSE, ok |-> FALSE, val |-> dflt, rest |-> <<>>]

u8_deserialize(b) ==
    IF Len(b) < 1 THEN DeErr(0) ELSE DeOk(b[1], Drop(b, 1))

u16_deserialize(b) ==
    IF Len(b) < 2 THEN DeErr(0) ELSE DeOk(b[1] + 256 * b[2], Drop(b, 2))

u32_deserialize(b) ==
    IF Len(b) < 4 THEN DeErr(0)
    ELSE DeOk(b[1] + 256 * b[2] + 65536 * b[3] + 16777216 * b[4], Drop(b, 4))

\* char::from_u32: surrogates and values past 0x10FFFF are no chars
IsScalarValue(n) == n <= 1114111 /\ ~(n >= 55296 /\ n <= 57343)

char_deserialize(b) ==
    LET r == u32_deserialize(b)
    IN  IF r.ok /\ IsScalarValue(r.val) THEN r ELSE DeErr(0)

\* a &str is its UTF-8 bytes behind a u32 length; the model's texts are ASCII,
\* and a byte above 127 outside a multi-byte sequence is invalid UTF-8
str_serialize(s) == u32_serialize(Len(s)) \o s

str_deserialize(b) ==
    LET n == u32_deserialize(b)
    IN  IF ~n.ok \/ Len(n.rest) < n.val THEN DeErr(<<>>)
        ELSE LET s == Take(n.rest, n.val)
             IN  IF \A i \in 1..Len(s) : s[i] < 128
                 THEN DeOk(s, Drop(n.rest, n.val))
                 ELSE DeErr(<<>>)

\* Option<ClientHandle>: a 0/1 tag, then the handle
NoTarget == [some |-> FALSE, handle |-> 0]

SomeTarget(h) == [some |-> TRUE, handle |-> h]

target_serialize(t) ==
    IF t.some THEN u8_serialize(1) \o u32_serialize(t.handle) ELSE u8_serialize(0)

target_deserialize(b) ==
    LET tag == u8_deserialize(b)
    IN  IF ~tag.ok THEN DeErr(NoTarget)
        ELSE IF tag.val = 0 THEN DeOk(NoTarget, tag.rest)
        ELSE IF tag.val = 1
             THEN LET h == u32_deserialize(tag.rest)
                  IN  IF h.ok THEN DeOk(SomeTarget(h.val), h.rest) ELSE DeErr(NoTarget)
        ELSE DeErr(NoTarget)

\* ---- serialize_key
NamedDiscriminant(kind) ==
    (CHOOSE i \in 1..Len(NamedKinds) : NamedKinds[i] = kind) - 1

\* a serializer with the discriminants of Char and Ctrl exchanged
serialize_key_swapped(k) ==
    CASE k.kind = "F"    -> u8_serialize(13) \o u32_serialize(k.arg)
      [] k.kind = "Char" -> u8_serialize(15) \o char_serialize(k.arg)
      [] k.kind = "Ctrl" -> u8_serialize(14) \o char_serialize(k.arg)
      [] k.kind = "Alt"  -> u8_serialize(16) \o char_serialize(k.arg)
      [] k.kind = "Esc"  -> u8_serialize(17)
      [] OTHER           -> u8_serialize(NamedDiscriminant(k.kind))

serialize_key(k) ==
    CASE k.kind = "F"    -> u8_serialize(13) \o u32_serialize(k.arg)
      [] k.kind = "Char" -> u8_serialize(14) \o char_serialize(k.arg)
      [] k.kind = "Ctrl" -> u8_serialize(15) \o char_serialize(k.arg)
      [] k.kind = "Alt"  -> u8_serialize(16) \o char_serialize(k.arg)
      [] k.kind = "Esc"  -> u8_serialize(17)
      [] OTHER           -> u8_serialize(NamedDiscriminant(k.kind))

\* ---- deserialize_key
deserialize_key(b) ==
    LET d == u8_deserialize(b)
    IN  IF ~d.ok THEN DeErr(KeyNone)
        ELSE IF d.val <= 12 THEN DeOk(MkKey(NamedKinds[d.val + 1], 0), d.rest)
        ELSE IF d.val = 13
             THEN LET n == u32_deserialize(d.rest)
                  IN  IF n.ok THEN DeOk(MkKey("F", n.val), n.rest) ELSE DeErr(KeyNone)
        ELSE IF d.val \in {14, 15, 16}
             THEN LET c == char_deserialize(d.rest)
                      kind == CASE d.val = 14 -> "Char"
                                [] d.val = 15 -> "Ctrl"
                                [] OTHER      -> "Alt"
                  IN  IF c.ok THEN DeOk(MkKey(kind, c.val), c.rest) ELSE DeErr(KeyNone)
        ELSE IF d.val = 17 THEN DeOk(MkKey("Esc", 0), d.rest)
        ELSE DeErr(KeyNone)


\* ---- impl Display for Key
RECURSIVE Decimal(_)
Decimal(n) == IF n < 10 THEN <<48 + n>> ELSE Decimal(n \div 10) \o <<48 + (n % 10)>>

NamedText(kind) ==
    CASE kind = "Backspace" -> <<60, 98, 97, 99, 107, 115, 112, 97, 99, 101, 62>>
      [] kind = "Enter"     -> <<60, 101, 110, 116, 101, 114, 62>>
      [] kind = "Left"      -> <<60, 108, 101, 102, 116, 62>>
      [] kind = "Right"     -> <<60, 114, 105, 103, 104, 116, 62>>
      [] kind = "Up"        -> <<60, 117, 112, 62>>
      [] kind = "Down"      -> <<60, 100, 111, 119, 110, 62>>
      [] kind = "Home"      -> <<60, 104, 111, 109, 101, 62>>
      [] kind = "End"       -> <<60, 101, 110, 100, 62>>
      [] kind = "PageUp"    -> <<60, 112, 97, 103, 101, 117, 112, 62>>
      [] kind = "PageDown"  -> <<60, 112, 97, 103, 101, 100, 111, 119, 110, 62>>
      [] kind = "Tab"       -> <<60, 116, 97, 98, 62>>
      [] kind = "Delete"    -> <<60, 100, 101, 108, 101, 116, 101, 62>>
      [] kind = "Esc"       -> <<60, 101, 115, 99, 62>>
      [] OTHER              -> <<>>

\* a Display that writes the char itself for ' ', '<' and '>'
Key_fmt_plain(k) ==
    CASE k.kind = "F"    -> <<60, 102>> \o Decimal(k.arg) \o <<62>>
      [] k.kind = "Char" -> <<k.arg>>
      [] k.kind = "Ctrl" -> <<60, 99, 45, k.arg, 62>>
      [] k.kind = "Alt"  -> <<60, 97, 45, k.arg, 62>>
      [] OTHER           -> NamedText(k.kind)

Key_fmt(k) ==
    CASE k.kind = "F"    -> <<60, 102>> \o Decimal(k.arg) \o <<62>>
      [] k.kind = "Char" ->
            CASE k.arg = 32 -> <<60, 115, 112, 97, 99, 101, 62>>          \* "<space>"
              [] k.arg = 60 -> <<60, 108, 101, 115, 115, 62>>              \* "<less>"
              [] k.arg = 62 -> <<60, 103, 114, 101, 97, 116, 101, 114, 62>> \* "<greater>"
              [] OTHER      -> <<k.arg>>
      [] k.kind = "Ctrl" -> <<60, 99, 45, k.arg, 62>>                      \* "<c-{}>"
      [] k.kind = "Alt"  -> <<60, 97, 45, k.arg, 62>>                      \* "<a-{}>"
      [] OTHER           -> NamedText(k.kind)

\* ---- parse_key
\* A result carries the iterator as parse_key leaves it: what it has not consumed.
ParseOk(k, rest) == [run |-> TRUE, ok |-> TRUE, val |-> k, rest |-> rest,
                     err |-> "", bad |-> 0]

UnexpectedEnd == [run |-> TRUE, ok |-> FALSE, val |-> KeyNone, rest |-> <<>>,
                  err |-> "UnexpectedEnd", bad |-> 0]

InvalidCharacter(c, rest) == [run |-> TRUE, ok |-> FALSE, val |-> KeyNone, rest |-> rest,
                              err |-> "InvalidCharacter", bad |-> c]

ParseNotRun == [run |-> FALSE, ok |-> FALSE, val |-> KeyNone, rest |-> <<>>,
                err |-> "", bad |-> 0]

is_ascii(c) == c < 128

is_digit(c) == c >= 48 /\ c <= 57

is_ascii_alphanumeric(c) ==
    is_digit(c) \/ (c >= 65 /\ c <= 90) \/ (c >= 97 /\ c <= 122)

\* consume_str!(lit), then the key: each char must be the next of lit
RECURSIVE consume_str(_, _, _)
consume_str(chars, lit, k) ==
    IF lit = <<>> THEN ParseOk(k, chars)
    ELSE IF chars = <<>> THEN UnexpectedEnd
    ELSE IF Head(chars) # Head(lit) THEN InvalidCharacter(Head(chars), Tail(chars))
    ELSE consume_str(Tail(chars), Tail(lit), k)

\* next!() and a match on the char: `arms` maps a char to the rest of the literal
\* and the key; any other char is an InvalidCharacter
parse_f(chars) ==
    IF chars = <<>> THEN UnexpectedEnd
    ELSE LET c0 == Head(chars)
             r0 == Tail(chars)
         IN  IF ~is_digit(c0) THEN InvalidCharacter(c0, r0)
             ELSE IF r0 = <<>> THEN UnexpectedEnd
             ELSE LET c1 == Head(r0)
                      r1 == Tail(r0)
                  IN  IF is_digit(c1)
                      THEN consume_str(r1, <<62>>, MkKey("F", (c0 - 48) * 10 + (c1 - 48)))
                      ELSE IF c1 = 62 THEN ParseOk(MkKey("F", c0 - 48), r1)
                      ELSE InvalidCharacter(c1, r1)

parse_modifier(chars, kind) ==
    LET dash == consume_str(chars, <<45>>, KeyNone)
    IN  IF ~dash.ok THEN dash
        ELSE IF dash.rest = <<>> THEN UnexpectedEnd
        ELSE LET c == Head(dash.rest)
                 r == Tail(dash.rest)
             IN  IF is_ascii_alphanumeric(c)
                 THEN consume_str(r, <<62>>, MkKey(kind, c))
                 ELSE InvalidCharacter(c, r)

\* the arms of `'<' => match next!()`
parse_bracket(chars) ==
    IF chars = <<>> THEN UnexpectedEnd
    ELSE LET c == Head(chars)
             r == Tail(chars)
         IN  CASE c = 98  -> consume_str(r, <<97, 99, 107, 115, 112, 97, 99, 101, 62>>,
                                         MkKey("Backspace", 0))
               [] c = 115 -> consume_str(r, <<112, 97, 99, 101, 62>>, MkKey("Char", 32))
               [] c = 101 ->
                    IF r = <<>> THEN UnexpectedEnd
                    ELSE IF Head(r) = 110
                         THEN IF Tail(r) = <<>> THEN UnexpectedEnd
                              ELSE IF Head(Tail(r)) = 116
                                   THEN consume_str(Tail(Tail(r)), <<101, 114, 62>>,
                                                    MkKey("Enter", 0))
                              ELSE IF Head(Tail(r)) = 100
                                   THEN consume_str(Tail(Tail(r)), <<62>>, MkKey("End", 0))
                              ELSE InvalidCharacter(Head(Tail(r)), Tail(Tail(r)))
                    ELSE IF Head(r) = 115
                         THEN consume_str(Tail(r), <<99, 62>>, MkKey("Esc", 0))
                    ELSE InvalidCharacter(Head(r), Tail(r))
               [] c = 108 ->
                    LET e == consume_str(r, <<101>>, KeyNone)
                    IN  IF ~e.ok THEN e
                        ELSE IF e.rest = <<>> THEN UnexpectedEnd
                        ELSE IF Head(e.rest) = 115
                             THEN consume_str(Tail(e.rest), <<115, 62>>, MkKey("Char", 60))
                        ELSE IF Head(e.rest) = 102
                             THEN consume_str(Tail(e.rest), <<116, 62>>, MkKey("Left", 0))
                        ELSE InvalidCharacter(Head(e.rest), Tail(e.rest))
               [] c = 103 -> consume_str(r, <<114, 101, 97, 116, 101, 114, 62>>,
                                         MkKey("Char", 62))
               [] c = 114 -> consume_str(r, <<105, 103, 104, 116, 62>>, MkKey("Right", 0))
               [] c = 117 -> consume_str(r, <<112, 62>>, MkKey("Up", 0))
               [] c = 100 ->
                    IF r = <<>> THEN UnexpectedEnd
                    ELSE IF Head(r) = 111
                         THEN consume_str(Tail(r), <<119, 110, 62>>, MkKey("Down", 0))
                    ELSE IF Head(r) = 101
                         THEN consume_str(Tail(r), <<108, 101, 116, 101, 62>>,
                                          MkKey("Delete", 0))
                    ELSE InvalidCharacter(Head(r), Tail(r))
               [] c = 104 -> consume_str(r, <<111, 109, 101, 62>>, MkKey("Home", 0))
               [] c = 112 ->
                    LET a == consume_str(r, <<97, 103, 101>>, KeyNone)
                    IN  IF ~a.ok THEN a
                        ELSE IF a.rest = <<>> THEN UnexpectedEnd
                        ELSE IF Head(a.rest) = 117
                             THEN consume_str(Tail(a.rest), <<112, 62>>, MkKey("PageUp", 0))
                        ELSE IF Head(a.rest) = 100
                             THEN consume_str(Tail(a.rest), <<111, 119, 110, 62>>,
                                              MkKey("PageDown", 0))
                        ELSE InvalidCharacter(Head(a.rest), Tail(a.rest))
               [] c = 116 -> consume_str(r, <<97, 98, 62>>, MkKey("Tab", 0))
               [] c = 102 -> parse_f(r)
               [] c = 99  -> parse_modifier(r, "Ctrl")
               [] c = 97  -> parse_modifier(r, "Alt")
               [] OTHER   -> InvalidCharacter(c, r)

parse_key(chars) ==
    IF chars = <<>> THEN UnexpectedEnd
    ELSE LET c == Head(chars)
             r == Tail(chars)
         IN  IF c = 60 THEN parse_bracket(r)
             ELSE IF c = 62 THEN InvalidCharacter(c, r)
             ELSE IF is_ascii(c) THEN ParseOk(MkKey("Char", c), r)
             ELSE InvalidCharacter(c, r)

\* ---- ClientEvent and impl Serialize for ClientEvent
MkEvent(kind, target, k, w, h, text) ==
    [kind |-> kind, target |-> target, key |-> k, width |-> w, height |-> h, text |-> text]

EventKey(target, k) == MkEvent("Key", target, k, 0, 0, <<>>)

EventResize(target, w, h) == MkEvent("Resize", target, KeyNone, w, h, <<>>)

EventCommand(target, text) == MkEvent("Command", target, KeyNone, 0, 0, text)

NoEvent == MkEvent("Key", NoTarget, KeyNone, 0, 0, <<>>)

\* a serializer that leaves the target handle out of a Resize
ClientEvent_serialize_no_target(e) ==
    CASE e.kind = "Key" ->
            u8_serialize(0) \o target_serialize(e.target) \o serialize_key(e.key)
      [] e.kind = "Resize" ->
            u8_serialize(1) \o u16_serialize(e.width) \o u16_serialize(e.height)
      [] OTHER ->
            u8_serialize(2) \o target_serialize(e.target) \o str_serialize(e.text)

ClientEvent_serialize(e) ==
    CASE e.kind = "Key" ->
            u8_serialize(0) \o target_serialize(e.target) \o serialize_key(e.key)
      [] e.kind = "Resize" ->
            u8_serialize(1) \o target_serialize(e.target)
                \o u16_serialize(e.width) \o u16_serialize(e.height)
      [] OTHER ->
            u8_serialize(2) \o target_serialize(e.target) \o str_serialize(e.text)

ClientEvent_deserialize(b) ==
    LET d == u8_deserialize(b)
        t == target_deserialize(d.rest)
    IN  IF ~d.ok \/ d.val > 2 THEN DeErr(NoEvent)
        ELSE IF ~t.ok THEN DeErr(NoEvent)
        ELSE IF d.val = 0
             THEN LET k == deserialize_key(t.rest)
                  IN  IF k.ok THEN DeOk(EventKey(t.val, k.val), k.rest) ELSE DeErr(NoEvent)
        ELSE IF d.val = 1
             THEN LET w == u16_deserialize(t.rest)
                      h == u16_deserialize(w.rest)
                  IN  IF w.ok /\ h.ok THEN DeOk(EventResize(t.val, w.val, h.val), h.rest)
                      ELSE DeErr(NoEvent)
        ELSE LET s == str_deserialize(t.rest)
             IN  IF s.ok THEN DeOk(EventCommand(t.val, s.val), s.rest) ELSE DeErr(NoEvent)


(***************************************************************************)
(* The codec's inputs and steps.  The key under test is the key of the     *)
(* event under test (Key::None for a Resize or a Command).                 *)
(***************************************************************************)
MaxF == 100

CharSample == {10, 32, 36, 48, 57, 60, 62, 65, 95, 97, 122, 233, 8364}

KeySet ==
    {MkKey(NamedKinds[i], 0) : i \in 1..Len(NamedKinds)}
        \cup {MkKey("Esc", 0)}
        \cup {MkKey("F", n) : n \in 0..MaxF}
        \cup {MkKey(kind, c) : kind \in {"Char", "Ctrl", "Alt"}, c \in CharSample}

TargetSet == {NoTarget, SomeTarget(0), SomeTarget(1), SomeTarget(300)}

SizeSample == {0, 80, 256, 65535}

TextSample == {<<>>, <<113>>, <<113, 117, 105, 116>>}

EventSet ==
    {EventKey(t, k) : t \in TargetSet, k \in KeySet}
        \cup {EventResize(t, w, h) : t \in TargetSet, w \in SizeSample, h \in SizeSample}
        \cup {EventCommand(t, text) : t \in TargetSet, text \in TextSample}

TrailSet == {<<>>, <<0>>, <<17, 2>>}

Unset == [set |-> FALSE, data |-> <<>>]

Written(data) == [set |-> TRUE, data |-> data]

CodecInit ==
    /\ event \in EventSet
    /\ key = event.key
    /\ key_bytes = Unset
    /\ key_trail = <<>>
    /\ key_de = NotRun(KeyNone)
    /\ key_text = Unset
    /\ key_parsed = ParseNotRun
    /\ event_bytes = Unset
    /\ event_trail = <<>>
    /\ event_de = NotRun(NoEvent)

CodecIdle ==
    /\ event = NoEvent
    /\ key = KeyNone
    /\ key_bytes = Unset
    /\ key_trail = <<>>
    /\ key_de = NotRun(KeyNone)
    /\ key_text = Unset
    /\ key_parsed = ParseNotRun
    /\ event_bytes = Unset
    /\ event_trail = <<>>
    /\ event_de = NotRun(NoEvent)

\* serialize_key(key, &mut buf); further bytes may follow in the stream
SerializeKey ==
    /\ ~key_bytes.set
    /\ \E tr \in TrailSet :
        /\ key_bytes' = Written(serialize_key(key) \o tr)
        /\ key_trail' = tr
    /\ UNCHANGED <<key, key_de, key_text, key_parsed,
                   event, event_bytes, event_trail, event_de>>
    /\ UNCHANGED codecRest

\* deserialize_key(&mut DeserializationSlice::from_slice(buf))
DeserializeKey ==
    /\ key_bytes.set
    /\ ~key_de.run
    /\ key_de' = deserialize_key(key_bytes.data)
    /\ UNCHANGED <<key, key_bytes, key_trail, key_text, key_parsed,
                   event, event_bytes, event_trail, event_de>>
    /\ UNCHANGED codecRest

\* format!("{}", key)
DisplayKey ==
    /\ ~key_text.set
    /\ key_text' = Written(Key_fmt(key))
    /\ UNCHANGED <<key, key_bytes, key_trail, key_de, key_parsed,
                   event, event_bytes, event_trail, event_de>>
    /\ UNCHANGED codecRest

\* parse_key(&mut text.chars())
ParseKey ==
    /\ key_text.set
    /\ ~key_parsed.run
    /\ key_parsed' = parse_key(key_text.data)
    /\ UNCHANGED <<key, key_bytes, key_trail, key_de, key_text,
                   event, event_bytes, event_trail, event_de>>
    /\ UNCHANGED codecRest

\* event.serialize(&mut buf); further bytes may follow in the stream
SerializeEvent ==
    /\ ~event_bytes.set
    /\ \E tr \in TrailSet :
        /\ event_bytes' = Written(ClientEvent_serialize(event) \o tr)
        /\ event_trail' = tr
    /\ UNCHANGED <<key, key_bytes, key_trail, key_de, key_text, key_parsed,
                   event, event_de>>
    /\ UNCHANGED codecRest

\* ClientEvent::deserialize(&mut DeserializationSlice::from_slice(buf))
DeserializeEvent ==
    /\ event_bytes.set
    /\ ~event_de.run
    /\ event_de' = ClientEvent_deserialize(event_bytes.data)
    /\ UNCHANGED <<key, key_bytes, key_trail, key_de, key_text, key_parsed,
                   event, event_bytes, event_trail>>
    /\ UNCHANGED codecRest

CodecNext ==
    \/ SerializeKey
    \/ DeserializeKey
    \/ DisplayKey
    \/ ParseKey
    \/ SerializeEvent
    \/ DeserializeEvent


(***************************************************************************)
(* Part 2.  The server's connection manager (src/connection.rs).           *)
(*                                                                         *)
(* A stream is a number 1..MaxStreams, given out in the order the clients  *)
(* connect.  A slot of `connections` holds 0 (None) or a stream.  Handles  *)
(* are 0-based as in the code: handle h is slot connections[h + 1].        *)
(* stream[s] is the socket of stream s and what is known about its client: *)
(*   sent        the events the client has written, in order               *)
(*   wire        the bytes written and not yet read by the server          *)
(*   eof         the client has closed its end                             *)
(*   malformed   the client has written bytes that are no event            *)
(*   shutdown    the server has called shutdown(Both)                      *)
(*   dispatched  the events the callback of receive_keys was given         *)
(*   fault       what first made the server close it: a read error, bytes  *)
(*               that are no event, a quit, the peer's disconnect, or a    *)
(*               failed write ("none": nothing did)                        *)
(***************************************************************************)
MaxStreams == 2

MaxEvents == 2

MaxClosed == 2

ReadBufCapacity == 2048

Streams == 1..MaxStreams

NewStream == [accepted |-> FALSE, sent |-> <<>>, wire |-> <<>>, eof |-> FALSE,
              malformed |-> FALSE, shutdown |-> FALSE,
              dispatched |-> <<>>, fault |-> "none"]

QuitText == <<113, 117, 105, 116>>

\* the events the model's clients send
ConnEventSet == {EventKey(NoTarget, MkKey("Char", 97)),
                 EventKey(NoTarget, MkKey("Esc", 0)),
                 EventCommand(NoTarget, QuitText)}

\* bytes that are no event: 9 is no ClientEvent discriminant
MalformedBytes == <<9>>

RECURSIVE serialize_all(_)
serialize_all(events) ==
    IF events = <<>> THEN <<>>
    ELSE ClientEvent_serialize(Head(events)) \o serialize_all(Tail(events))

\* ---- ReadGuard::read_from: the buffer doubles until the bytes fit with room to spare
RECURSIVE grown_capacity(_, _)
grown_capacity(cap, len) == IF len < cap THEN cap ELSE grown_capacity(2 * cap, len)

\* ---- ReadBuf::new
ReadBuf_new == [cap |-> ReadBufCapacity, len |-> 0, position |-> 0, data |-> <<>>]

\* ---- ReadGuard::read_from, when the reads return `bytes` in all
ReadGuard_read_from(buf, bytes) ==
    [buf EXCEPT !.cap = grown_capacity(buf.cap, buf.len + Len(bytes)),
                !.len = buf.len + Len(bytes),
                !.data = Take(buf.data, buf.len) \o bytes]

\* ---- ReadGuard::as_bytes
ReadGuard_as_bytes(buf) == SubSeq(buf.data, buf.position + 1, buf.len)

\* a variant of ReadGuard::drop: the bytes read stay in the buffer
ReadGuard_drop_keep(buf) == buf

\* ---- ReadGuard::drop: what lies past len is never read again
ReadGuard_drop(buf) == [buf EXCEPT !.len = 0, !.position = 0, !.data = <<>>]

\* ---- ClientEventDeserializer::deserialize_next
deserialize_next(b) ==
    IF b = <<>> THEN [kind |-> "None", event |-> NoEvent, rest |-> <<>>]
    ELSE LET r == ClientEvent_deserialize(b)
         IN  IF r.ok THEN [kind |-> "Some", event |-> r.val, rest |-> r.rest]
             ELSE [kind |-> "Error", event |-> NoEvent, rest |-> <<>>]

\* ---- the callback the server loop passes to receive_keys
IsQuit(e) == e.kind = "Command" /\ e.text = QuitText

callback(e) == IF IsQuit(e) THEN "Quit" ELSE "Continue"

\* ---- the decoding loop of receive_keys: the events given to the callback, in
\* ---- the order it was given them, and what receive_keys returns
Dispatch(events, result) == [events |-> events, result |-> result]

\* a loop that goes on decoding after the callback returned Quit
RECURSIVE receive_loop_no_break(_, _)
receive_loop_no_break(b, last_result) ==
    LET r == deserialize_next(b)
    IN  CASE r.kind = "None"  -> Dispatch(<<>>, last_result)
          [] r.kind = "Error" -> Dispatch(<<>>, "Err")
          [] OTHER ->
                LET rest == receive_loop_no_break(r.rest, callback(r.event))
                IN  Dispatch(<<r.event>> \o rest.events, rest.result)

\* a loop that hands the events of a batch to the callback last first
RECURSIVE receive_loop_lifo(_, _)
receive_loop_lifo(b, last_result) ==
    LET r == deserialize_next(b)
    IN  CASE r.kind = "None"  -> Dispatch(<<>>, last_result)
          [] r.kind = "Error" -> Dispatch(<<>>, "Err")
          [] OTHER ->
                LET rest == receive_loop_lifo(r.rest, callback(r.event))
                IN  Dispatch(rest.events \o <<r.event>>, rest.result)

\* a loop that stops after the first event of a batch
receive_loop_first_only(b, last_result) ==
    LET r == deserialize_next(b)
    IN  CASE r.kind = "None"  -> Dispatch(<<>>, last_result)
          [] r.kind = "Error" -> Dispatch(<<>>, "Err")
          [] OTHER -> Dispatch(<<r.event>>, callback(r.event))

\* a loop that takes bytes that do not decode for the end of the bytes
RECURSIVE receive_loop_error_ends(_, _)
receive_loop_error_ends(b, last_result) ==
    LET r == deserialize_next(b)
    IN  CASE r.kind = "None"  -> Dispatch(<<>>, last_result)
          [] r.kind = "Error" -> Dispatch(<<>>, last_result)
          [] OTHER ->
                LET res == callback(r.event)
                IN  IF res = "Quit" THEN Dispatch(<<r.event>>, "Quit")
                    ELSE LET rest == receive_loop_error_ends(r.rest, res)
                         IN  Dispatch(<<r.event>> \o rest.events, rest.result)

RECURSIVE receive_loop(_, _)
receive_loop(b, last_result) ==
    LET r == deserialize_next(b)
    IN  CASE r.kind = "None"  -> Dispatch(<<>>, last_result)
          [] r.kind = "Error" -> Dispatch(<<>>, "Err")
          [] OTHER ->
                LET res == callback(r.event)
                IN  IF res = "Quit" THEN Dispatch(<<r.event>>, "Quit")
                    ELSE LET rest == receive_loop(r.rest, res)
                         IN  Dispatch(<<r.event>> \o rest.events, rest.result)

\* ---- receive_keys on the slot's content `conn`, when the read fails (`fail`)
\* ---- or returns `bytes`
receive_keys(conn, buf, bytes, fail) ==
    IF conn = 0 THEN Dispatch(<<>>, "Quit")
    ELSE IF fail THEN Dispatch(<<>>, "Err")
    ELSE receive_loop(ReadGuard_as_bytes(ReadGuard_read_from(buf, bytes)), "Quit")

\* the read buffer when receive_keys returns
receive_keys_buf(conn, buf, bytes, fail) ==
    IF conn = 0 THEN buf
    ELSE IF fail THEN ReadGuard_drop(buf)
    ELSE ReadGuard_drop(ReadGuard_read_from(buf, bytes))

\* ---- accept_connection: the first slot that is None, else a new slot
FreeSlots == {i \in 1..Len(connections) : connections[i] = 0}

\* a search that also takes the slot of a connection that was shut down
accept_slot_closed ==
    LET free == {i \in 1..Len(connections) :
                    connections[i] = 0 \/ stream[connections[i]].shutdown}
    IN  IF free = {} THEN Len(connections) + 1
        ELSE CHOOSE i \in free : \A j \in free : i <= j

\* a search that takes the empty slot of the highest index
accept_slot_last ==
    IF FreeSlots = {} THEN Len(connections) + 1
    ELSE CHOOSE i \in FreeSlots : \A j \in FreeSlots : i >= j

accept_slot ==
    IF FreeSlots = {} THEN Len(connections) + 1
    ELSE CHOOSE i \in FreeSlots : \A j \in FreeSlots : i <= j

\* ---- close_connection(handle): the indexes it shuts down and queues
\* a close that shuts down every connection, not only the one of the handle
close_connection_all(h) == {i \in 0..(Len(connections) - 1) : connections[i + 1] # 0}

\* a close that does nothing
close_connection_none(h) == {}

close_connection(h) == IF connections[h + 1] # 0 THEN {h} ELSE {}

RECURSIVE SortedSeq(_)
SortedSeq(S) ==
    IF S = {} THEN <<>>
    ELSE LET m == CHOOSE x \in S : \A y \in S : x <= y
         IN  <<m>> \o SortedSeq(S \ {m})

\* the sockets after the calls close_connection(h) for h in `closing`
Closed(st, closing) ==
    [s \in Streams |->
        IF \E h \in closing : connections[h + 1] = s
        THEN [st[s] EXCEPT !.shutdown = TRUE]
        ELSE st[s]]

ConnInit ==
    /\ connections = <<>>
    /\ closed_connection_indexes = <<>>
    /\ read_buf = ReadBuf_new
    /\ registry = {}
    /\ stream = [s \in Streams |-> NewStream]
    /\ last_accept = [handle |-> -1, pending |-> FALSE]
    /\ read_buf_users = {}
    /\ quit_all = FALSE
    /\ turns = [h \in 0..(MaxStreams - 1) |-> 0]
    /\ unregistered = [s \in Streams |-> 0]

\* ---- the clients
RECURSIVE SumLen(_, _)
SumLen(st, S) ==
    IF S = {} THEN 0
    ELSE LET s == CHOOSE x \in S : TRUE
         IN  Len(st[s].sent) + SumLen(st, S \ {s})

\* the events all clients have written
EventsSent == SumLen(stream, Streams)

\* a client writes one more event to its connection
ClientSend(s) ==
    /\ stream[s].accepted /\ ~stream[s].eof /\ ~stream[s].shutdown
    /\ ~stream[s].malformed
    /\ EventsSent < MaxEvents
    /\ \E e \in ConnEventSet :
        stream' = [stream EXCEPT ![s].sent = Append(@, e),
                                 ![s].wire = @ \o ClientEvent_serialize(e)]
    /\ UNCHANGED <<connections, closed_connection_indexes, read_buf, registry,
                   last_accept, read_buf_users, quit_all, turns, unregistered>>
    /\ UNCHANGED connRest

\* a client writes bytes that are no event
ClientSendMalformed(s) ==
    /\ stream[s].accepted /\ ~stream[s].eof /\ ~stream[s].shutdown
    /\ ~stream[s].malformed
    /\ stream' = [stream EXCEPT ![s].malformed = TRUE,
                                ![s].wire = @ \o MalformedBytes]
    /\ UNCHANGED <<connections, closed_connection_indexes, read_buf, registry,
                   last_accept, read_buf_users, quit_all, turns, unregistered>>
    /\ UNCHANGED connRest

\* a client closes its end
ClientDisconnect(s) ==
    /\ stream[s].accepted /\ ~stream[s].eof /\ ~stream[s].shutdown
    /\ stream' = [stream EXCEPT ![s].eof = TRUE]
    /\ UNCHANGED <<connections, closed_connection_indexes, read_buf, registry,
                   last_accept, read_buf_users, quit_all, turns, unregistered>>
    /\ UNCHANGED connRest

\* ---- the server
\* the listener is ready: accept_connection of the next client
Accept ==
    \E s \in Streams :
        /\ ~stream[s].accepted
        /\ \A t \in Streams : t < s => stream[t].accepted
        /\ LET slot == accept_slot
           IN  /\ connections' =
                    IF slot > Len(connections) THEN Append(connections, s)
                    ELSE [connections EXCEPT ![slot] = s]
               /\ registry' = registry \cup {<<slot - 1, s>>}
               /\ last_accept' = [handle |-> slot - 1,
                                  pending |-> closed_connection_indexes # <<>>]
        /\ stream' = [stream EXCEPT ![s].accepted = TRUE]
        /\ UNCHANGED <<closed_connection_indexes, read_buf, read_buf_users, quit_all, turns, unregistered>>
        /\ UNCHANGED connRest

\* a client stream is ready: receive_keys(h, callback), then the loop closes the
\* connection when receive_keys returned Quit or an error
ServerOnStream(h, k, fail) ==
    \E conn \in {connections[h + 1]} :
    \E bytes \in {IF conn = 0 \/ fail THEN <<>> ELSE Take(stream[conn].wire, k)} :
    \E got \in {receive_keys(conn, read_buf, bytes, fail)} :
    \E closing \in {IF got.result \in {"Quit", "Err"} THEN close_connection(h) ELSE {}} :
        LET quit == got.events # <<>> /\ IsQuit(got.events[Len(got.events)])
            cause == CASE fail -> "read"
                       [] got.result = "Err" -> "decode"
                       [] got.result = "Quit" /\ quit -> "quit"
                       [] got.result = "Quit" -> "eof"
                       [] OTHER -> "none"
            read == IF conn = 0 THEN stream
                    ELSE [stream EXCEPT
                            ![conn].wire = Drop(@, Len(bytes)),
                            ![conn].dispatched = @ \o got.events,
                            ![conn].fault = IF @ = "none" THEN cause ELSE @]
        IN  /\ Len(closed_connection_indexes) + Cardinality(closing) <= MaxClosed
            /\ read_buf' = receive_keys_buf(conn, read_buf, bytes, fail)
            /\ read_buf_users' = IF conn = 0 THEN read_buf_users
                                 ELSE read_buf_users \cup {conn}
            /\ stream' = Closed(read, closing)
            /\ closed_connection_indexes' = closed_connection_indexes \o SortedSeq(closing)
            /\ UNCHANGED <<connections, registry, last_accept, quit_all, unregistered>>
            /\ UNCHANGED connRest

\* what the read of handle h can return: an error, or the first k bytes that
\* have arrived (none when the peer has closed its end or the socket is shut down)
ReadOutcomes(h) ==
    LET conn == connections[h + 1]
    IN  IF conn = 0 \/ stream[conn].shutdown THEN {<<0, FALSE>>}
        ELSE {<<k, FALSE>> : k \in 1..Len(stream[conn].wire)}
             \cup (IF stream[conn].wire = <<>> /\ stream[conn].eof
                   THEN {<<0, FALSE>>} ELSE {})
             \cup {<<0, TRUE>>}

\* the registry reports a readiness event for handle h
OnStream ==
    /\ \E h \in 0..(Len(connections) - 1) :
            \E r \in ReadOutcomes(h) : ServerOnStream(h, r[1], r[2])
    /\ UNCHANGED turns

\* the bytes serializer.remote_bytes(handle) gives when there are some
OperationBytes == <<1, 0>>

\* a variant of send_serialized_operations: a failed write is ignored
send_serialized_operations_no_close(h, bytes, ok) ==
    LET conn == connections[h + 1]
    IN  IF bytes = <<>> \/ conn = 0 \/ ~ok
        THEN [writes |-> <<>>, failed |-> FALSE, closing |-> {}]
        ELSE [writes |-> <<[to |-> conn, bytes |-> bytes]>>, failed |-> FALSE, closing |-> {}]

\* send_serialized_operations(h, serializer) with `bytes` accumulated for h,
\* the write succeeding (`ok`) or failing: the calls of write_all it makes,
\* whether the write failed, and the handles it closes
send_serialized_operations(h, bytes, ok) ==
    LET conn == connections[h + 1]
    IN  IF bytes = <<>> THEN [writes |-> <<>>, failed |-> FALSE, closing |-> {}]
        ELSE IF conn = 0 THEN [writes |-> <<>>, failed |-> FALSE, closing |-> {}]
        ELSE IF ok
             THEN [writes |-> <<[to |-> conn, bytes |-> bytes]>>, failed |-> FALSE,
                   closing |-> {}]
             ELSE [writes |-> <<>>, failed |-> TRUE, closing |-> close_connection(h)]

\* the flush of a tick: send_serialized_operations(h, serializer), the write
\* succeeding (`ok`) or failing
SendOperations(h, has_bytes, ok) ==
    LET conn == connections[h + 1]
        sent == send_serialized_operations(h, IF has_bytes THEN OperationBytes ELSE <<>>, ok)
        written == IF sent.failed
                   THEN [stream EXCEPT ![conn].fault = IF @ = "none" THEN "write" ELSE @]
                   ELSE stream
    IN  /\ conn # 0 /\ stream[conn].shutdown => ~ok
        /\ Len(closed_connection_indexes) + Cardinality(sent.closing) <= MaxClosed
        /\ stream' = Closed(written, sent.closing)
        /\ closed_connection_indexes' = closed_connection_indexes \o SortedSeq(sent.closing)
        /\ UNCHANGED <<connections, read_buf, registry, last_accept, read_buf_users, quit_all, turns, unregistered>>
        /\ UNCHANGED connRest

Send ==
    \E h \in 0..(Len(connections) - 1), has_bytes \in BOOLEAN, ok \in BOOLEAN :
        SendOperations(h, has_bytes, ok)

\* ---- unregister_closed_connections: the loop over
\* ---- closed_connection_indexes.drain(..): the slots, the registry and the
\* ---- unregister_stream calls it leaves
Unregistered(slots, reg, calls) == [connections |-> slots, registry |-> reg, calls |-> calls]

\* a loop that unregisters the stream of an index without taking it from its slot
RECURSIVE unregister_closed_connections_no_take(_, _, _, _)
unregister_closed_connections_no_take(indexes, slots, reg, calls) ==
    IF indexes = <<>> THEN Unregistered(slots, reg, calls)
    ELSE LET i == Head(indexes)
             conn == slots[i + 1]
         IN  IF conn # 0
             THEN unregister_closed_connections_no_take(
                        Tail(indexes), slots,
                        {r \in reg : r[2] # conn}, [calls EXCEPT ![conn] = @ + 1])
             ELSE unregister_closed_connections_no_take(Tail(indexes), slots, reg, calls)

RECURSIVE unregister_closed_connections(_, _, _, _)
unregister_closed_connections(indexes, slots, reg, calls) ==
    IF indexes = <<>> THEN Unregistered(slots, reg, calls)
    ELSE LET i == Head(indexes)
             conn == slots[i + 1]
         IN  IF conn # 0
             THEN unregister_closed_connections(
                        Tail(indexes), [slots EXCEPT ![i + 1] = 0],
                        {r \in reg : r[2] # conn}, [calls EXCEPT ![conn] = @ + 1])
             ELSE unregister_closed_connections(Tail(indexes), slots, reg, calls)

\* the end of a tick: unregister_closed_connections
UnregisterClosed ==
    /\ closed_connection_indexes # <<>>
    /\ \E done \in {unregister_closed_connections(closed_connection_indexes, connections,
                                                  registry, unregistered)} :
            /\ connections' = done.connections
            /\ registry' = done.registry
            /\ unregistered' = done.calls
    /\ closed_connection_indexes' = <<>>
    /\ UNCHANGED <<stream, read_buf, last_accept, read_buf_users, quit_all, turns>>
    /\ UNCHANGED connRest

\* ---- close_all_connections: every stream in a slot is shut down
close_all_connections(st) ==
    [s \in Streams |->
        IF \E i \in 1..Len(connections) : connections[i] = s
        THEN [st[s] EXCEPT !.shutdown = TRUE]
        ELSE st[s]]

\* the quit-all teardown: close_all_connections, then
\* unregister_closed_connections, and the server loop ends
QuitAll ==
    /\ ~quit_all
    /\ quit_all' = TRUE
    /\ stream' = close_all_connections(stream)
    /\ \E done \in {unregister_closed_connections(closed_connection_indexes, connections,
                                                  registry, unregistered)} :
            /\ connections' = done.connections
            /\ registry' = done.registry
            /\ unregistered' = done.calls
    /\ closed_connection_indexes' = <<>>
    /\ UNCHANGED <<read_buf, last_accept, read_buf_users, turns>>
    /\ UNCHANGED connRest

\* the server up to and with its teardown, its clients sending nothing
QuitNext ==
    \/ ~quit_all /\ \E s \in Streams : ClientDisconnect(s)
    \/ ~quit_all /\ Accept
    \/ ~quit_all /\ OnStream
    \/ ~quit_all /\ Send
    \/ ~quit_all /\ UnregisterClosed
    \/ QuitAll

\* ---- two clients that keep sending keys to a server that keeps serving
\* a client writes one more key
ClientSendKey(s) ==
    /\ ClientSend(s)
    /\ stream'[s].sent[Len(stream'[s].sent)].kind = "Key"

\* the registry reports handle h, whose stream has bytes to read, and the loop
\* calls receive_keys on it; the read returns some or all of the bytes that
\* have arrived
Ready(h) ==
    /\ h < Len(connections)
    /\ connections[h + 1] # 0
    /\ ~stream[connections[h + 1]].shutdown
    /\ stream[connections[h + 1]].wire # <<>>

\* handle h gets a turn of the loop
Turn(h) == Ready(h) /\ turns' = [turns EXCEPT ![h] = 1 - @]

ServeReady(h) ==
    /\ Turn(h)
    /\ \E k \in 1..Len(stream[connections[h + 1]].wire) : ServerOnStream(h, k, FALSE)

FairNext ==
    \/ \E s \in Streams : ClientSendKey(s)
    \/ Accept
    \/ \E h \in 0..(MaxStreams - 1) : ServeReady(h)

ConnNext ==
    \/ \E s \in Streams : ClientSend(s)
    \/ \E s \in Streams : ClientSendMalformed(s)
    \/ \E s \in Streams : ClientDisconnect(s)
    \/ Accept
    \/ OnStream
    \/ Send
    \/ UnregisterClosed

\* ---- a server that has run for a while: connections were accepted, closed
\* ---- and unregistered, which left empty slots in the table; at most one of
\* ---- the earlier clients (stream 1) is still connected
MaxSlots == 3

SlotTables ==
    {t \in UNION {[1..n -> {0, 1}] : n \in 0..MaxSlots} :
        Cardinality({i \in DOMAIN t : t[i] = 1}) <= 1}

AcceptInit ==
    /\ connections \in SlotTables
    /\ closed_connection_indexes = <<>>
    /\ read_buf = ReadBuf_new
    /\ registry = {<<i - 1, connections[i]>> : i \in {j \in DOMAIN connections :
                                                        connections[j] # 0}}
    /\ stream = [s \in Streams |->
                    IF \E i \in DOMAIN connections : connections[i] = s
                    THEN [NewStream EXCEPT !.accepted = TRUE]
                    ELSE NewStream]
    /\ last_accept = [handle |-> -1, pending |-> FALSE]
    /\ read_buf_users = {}
    /\ quit_all = FALSE
    /\ turns = [h \in 0..(MaxStreams - 1) |-> 0]
    /\ unregistered = [s \in Streams |-> 0]

\* the clients connect and disconnect, and send nothing
AcceptNext ==
    \/ \E s \in Streams : ClientDisconnect(s)
    \/ Accept
    \/ OnStream
    \/ UnregisterClosed


(***************************************************************************)
(* Part 3.  The syntax highlighter (src/syntax.rs) and the client that     *)
(* drives it (src/client.rs).                                              *)
(*                                                                         *)
(* A line is a sequence of one-byte chars: "o" and "c" stand for the       *)
(* delimiters that open and close a block comment, "a" for an ASCII        *)
(* alphanumeric, " " for ASCII whitespace.  A text may also hold "\n".     *)
(* Line and column indexes are 0-based as in the code.                     *)
(***************************************************************************)
MaxLines == 3

MaxLineLen == 2

MaxOps == 4

Alphabet == {"o", "c", "a", " "}

is_whitespace(ch) == ch = " "

is_alphanumeric(ch) == ch = "a"

\* the two bytes of a char outside ASCII: "M" leads, "K" continues; the texts
\* of buffers hold none, the lines given to parse_line alone may
is_continuation(ch) == ch = "K"

is_char_boundary(line, index) ==
    \/ index = 0
    \/ index = Len(line)
    \/ index < Len(line) /\ ~is_continuation(line[index + 1])

\* ---- Pattern (crate::pattern): a black box with matches and matches_with_state
\* `body` is the set of chars the body of a block may hold besides its close
Lit(text) == [type |-> "lit", text |-> text, open |-> "", close |-> "", body |-> {}]

Block(open, close) ==
    [type |-> "block", text |-> <<>>, open |-> open, close |-> close,
     body |-> Alphabet \cup {"M", "K"}]

\* a block whose body is restricted, as "{%w$}" between its delimiters
StrictBlock(open, close, body) ==
    [type |-> "block", text |-> <<>>, open |-> open, close |-> close, body |-> body]

MatchOk(len) == [kind |-> "Ok", len |-> len, state |-> "none"]

MatchErr == [kind |-> "Err", len |-> 0, state |-> "none"]

MatchPending(state) == [kind |-> "Pending", len |-> 0, state |-> state]

\* the index of the first `close` in input[from + 1 ..], 0 when there is none
FirstClose(input, from, close) ==
    LET hits == {i \in (from + 1)..Len(input) : input[i] = close}
    IN  IF hits = {} THEN 0 ELSE CHOOSE i \in hits : \A j \in hits : i <= j

\* the index of the first char in input[from + 1 ..] that the body of the
\* pattern may not hold, 0 when there is none
FirstBad(input, from, pattern) ==
    LET hits == {i \in (from + 1)..Len(input) :
                    input[i] # pattern.close /\ input[i] \notin pattern.body}
    IN  IF hits = {} THEN 0 ELSE CHOOSE i \in hits : \A j \in hits : i <= j

\* the body of a block from input[from + 1] on: Ok up to and with the first
\* close, Err at a char the body may not hold, Pending at the line's end
BlockBody(pattern, input, from) ==
    IF FirstBad(input, from, pattern) # 0
       /\ (FirstClose(input, from, pattern.close) = 0
           \/ FirstBad(input, from, pattern) < FirstClose(input, from, pattern.close))
    THEN MatchErr
    ELSE IF FirstClose(input, from, pattern.close) = 0 THEN MatchPending("body")
    ELSE MatchOk(FirstClose(input, from, pattern.close))

Pattern_matches_with_state(pattern, input, state) == BlockBody(pattern, input, 0)

Pattern_matches(pattern, input) ==
    IF pattern.type = "lit"
    THEN IF IsPrefix(pattern.text, input) THEN MatchOk(Len(pattern.text)) ELSE MatchErr
    ELSE IF input = <<>> \/ Head(input) # pattern.open THEN MatchErr
    ELSE BlockBody(pattern, input, 1)

\* ---- Syntax, LineState, Token, HighlightedLine
Rule(kind, pattern) == [kind |-> kind, pattern |-> pattern]

Finished == [fin |-> TRUE, rule |-> 0, pstate |-> "none"]

Unfinished(i, pstate) == [fin |-> FALSE, rule |-> i, pstate |-> pstate]

Token(kind, from, to) == [kind |-> kind, from |-> from, to |-> to]

HighlightedLine(state, tokens) == [state |-> state, tokens |-> tokens]

HighlightedLine_default == HighlightedLine(Finished, <<>>)

\* the syntaxes of the client's config, by handle 1..Len(Syntaxes)
Syntaxes == << <<Rule("Comment", Block("o", "c"))>>,
               <<Rule("Keyword", Lit(<<"a">>)), Rule("Comment", Block("o", "c"))>> >>

\* ---- Syntax::parse_line
\* take_while(is_ascii_whitespace).count() and take_while(is_ascii_alphanumeric).count()
RECURSIVE whitespace_count(_)
whitespace_count(slice) ==
    IF slice # <<>> /\ is_whitespace(Head(slice)) THEN 1 + whitespace_count(Tail(slice))
    ELSE 0

RECURSIVE alphanumeric_count(_)
alphanumeric_count(slice) ==
    IF slice # <<>> /\ is_alphanumeric(Head(slice)) THEN 1 + alphanumeric_count(Tail(slice))
    ELSE 0

\* a variant of the rule loop: a later rule also wins a tie (`len >= max_len`)
RECURSIVE rule_loop_last_wins(_, _, _, _, _)
rule_loop_last_wins(rules, i, slice, max_len, best_pattern_index) ==
    IF i >= Len(rules)
    THEN [pending |-> FALSE, rule |-> best_pattern_index, len |-> max_len, state |-> "none"]
    ELSE LET m == Pattern_matches(rules[i + 1].pattern, slice)
         IN  CASE m.kind = "Ok" ->
                    IF m.len >= max_len
                    THEN rule_loop_last_wins(rules, i + 1, slice, m.len, i)
                    ELSE rule_loop_last_wins(rules, i + 1, slice, max_len, best_pattern_index)
               [] m.kind = "Err" ->
                    rule_loop_last_wins(rules, i + 1, slice, max_len, best_pattern_index)
               [] OTHER ->
                    [pending |-> TRUE, rule |-> i, len |-> 0, state |-> m.state]

\* a variant of the rule loop: a rule whose pattern stays Pending is passed
\* over like one that does not match
RECURSIVE rule_loop_skip_pending(_, _, _, _, _)
rule_loop_skip_pending(rules, i, slice, max_len, best_pattern_index) ==
    IF i >= Len(rules)
    THEN [pending |-> FALSE, rule |-> best_pattern_index, len |-> max_len, state |-> "none"]
    ELSE LET m == Pattern_matches(rules[i + 1].pattern, slice)
         IN  CASE m.kind = "Ok" ->
                    IF m.len > max_len
                    THEN rule_loop_skip_pending(rules, i + 1, slice, m.len, i)
                    ELSE rule_loop_skip_pending(rules, i + 1, slice, max_len,
                                                best_pattern_index)
               [] OTHER ->
                    rule_loop_skip_pending(rules, i + 1, slice, max_len, best_pattern_index)

\* the loop over the rules at one cursor position, from rule i (0-based) on
RECURSIVE rule_loop(_, _, _, _, _)
rule_loop(rules, i, slice, max_len, best_pattern_index) ==
    IF i >= Len(rules)
    THEN [pending |-> FALSE, rule |-> best_pattern_index, len |-> max_len, state |-> "none"]
    ELSE LET m == Pattern_matches(rules[i + 1].pattern, slice)
         IN  CASE m.kind = "Ok" ->
                    IF m.len > max_len THEN rule_loop(rules, i + 1, slice, m.len, i)
                    ELSE rule_loop(rules, i + 1, slice, max_len, best_pattern_index)
               [] m.kind = "Err" ->
                    rule_loop(rules, i + 1, slice, max_len, best_pattern_index)
               [] OTHER ->
                    [pending |-> TRUE, rule |-> i, len |-> 0, state |-> m.state]

RECURSIVE next_boundary(_, _)
next_boundary(line, index) ==
    IF is_char_boundary(line, index) THEN index ELSE next_boundary(line, index + 1)

\* a variant of the token loop: a token starts behind the whitespace
\* the loop skipped
RECURSIVE scan_line_token_after_whitespace(_, _, _, _)
scan_line_token_after_whitespace(rules, line, line_index, tokens) ==
    IF line_index >= Len(line) THEN HighlightedLine(Finished, tokens)
    ELSE LET whitespace_len == whitespace_count(Drop(line, line_index))
             line_slice == Drop(line, line_index + whitespace_len)
             found == rule_loop(rules, 0, line_slice, 0, 0)
         IN  IF found.pending
             THEN HighlightedLine(
                    Unfinished(found.rule, found.state),
                    Append(tokens, Token(rules[found.rule + 1].kind, line_index, Len(line))))
             ELSE LET kind == IF found.len = 0 THEN "Text"
                              ELSE rules[found.rule + 1].kind
                      max_len == (IF found.len = 0
                                  THEN Max(alphanumeric_count(line_slice), 1)
                                  ELSE found.len) + whitespace_len
                      to == next_boundary(line, Min(Len(line), line_index + max_len))
                  IN  scan_line_token_after_whitespace(
                          rules, line, to,
                          Append(tokens,
                                 Token(kind, Min(to, line_index + whitespace_len), to)))

\* a variant of the token loop: the token of the fallback is one byte long
\* whatever run of alphanumerics the slice starts with
RECURSIVE scan_line_one_byte(_, _, _, _)
scan_line_one_byte(rules, line, line_index, tokens) ==
    IF line_index >= Len(line) THEN HighlightedLine(Finished, tokens)
    ELSE LET whitespace_len == whitespace_count(Drop(line, line_index))
             line_slice == Drop(line, line_index + whitespace_len)
             found == rule_loop(rules, 0, line_slice, 0, 0)
         IN  IF found.pending
             THEN HighlightedLine(
                    Unfinished(found.rule, found.state),
                    Append(tokens, Token(rules[found.rule + 1].kind, line_index, Len(line))))
             ELSE LET kind == IF found.len = 0 THEN "Text"
                              ELSE rules[found.rule + 1].kind
                      max_len == (IF found.len = 0 THEN 1 ELSE found.len) + whitespace_len
                      to == next_boundary(line, Min(Len(line), line_index + max_len))
                  IN  scan_line_one_byte(rules, line, to,
                                         Append(tokens, Token(kind, line_index, to)))

\* the `while line_index < line_len` loop
RECURSIVE scan_line(_, _, _, _)
scan_line(rules, line, line_index, tokens) ==
    IF line_index >= Len(line) THEN HighlightedLine(Finished, tokens)
    ELSE LET whitespace_len == whitespace_count(Drop(line, line_index))
             line_slice == Drop(line, line_index + whitespace_len)
             found == rule_loop(rules, 0, line_slice, 0, 0)
         IN  IF found.pending
             THEN HighlightedLine(
                    Unfinished(found.rule, found.state),
                    Append(tokens, Token(rules[found.rule + 1].kind, line_index, Len(line))))
             ELSE LET kind == IF found.len = 0 THEN "Text"
                              ELSE rules[found.rule + 1].kind
                      max_len == (IF found.len = 0
                                  THEN Max(alphanumeric_count(line_slice), 1)
                                  ELSE found.len) + whitespace_len
                      to == next_boundary(line, Min(Len(line), line_index + max_len))
                  IN  scan_line(rules, line, to, Append(tokens, Token(kind, line_index, to)))

\* a variant of Vec::clear: the vector keeps what it held
Vec_keep(tokens) == tokens

\* tokens.clear()
Vec_clear(tokens) == <<>>

\* a variant of parse_line: the incoming state is not looked at
parse_line_no_carry(rules, line, previous_line_kind, tokens) ==
    IF Len(rules) = 0
    THEN HighlightedLine(Finished, Append(Vec_clear(tokens), Token("Text", 0, Len(line))))
    ELSE scan_line(rules, line, 0, Vec_clear(tokens))

\* parse_line(line, previous_line_kind, &mut tokens): the state it returns and
\* the tokens it leaves in the vector
parse_line(rules, line, previous_line_kind, tokens) ==
    IF Len(rules) = 0
    THEN HighlightedLine(Finished, Append(Vec_clear(tokens), Token("Text", 0, Len(line))))
    ELSE IF previous_line_kind.fin THEN scan_line(rules, line, 0, Vec_clear(tokens))
    ELSE LET rule == rules[previous_line_kind.rule + 1]
             m == Pattern_matches_with_state(rule.pattern, line, previous_line_kind.pstate)
         IN  CASE m.kind = "Ok" ->
                    scan_line(rules, line, m.len,
                              Append(Vec_clear(tokens), Token(rule.kind, 0, m.len)))
               [] m.kind = "Err" -> scan_line(rules, line, 0, Vec_clear(tokens))
               [] OTHER ->
                    HighlightedLine(Unfinished(previous_line_kind.rule, m.state),
                                    Append(Vec_clear(tokens), Token(rule.kind, 0, Len(line))))


\* ---- BufferContent (crate::buffer) and BufferPosition / BufferRange
Pos(line_index, column_byte_index) ==
    [line_index |-> line_index, column_byte_index |-> column_byte_index]

BufferRange(from, to) == [from |-> from, to |-> to]

\* the lines of a text: its pieces between the "\n"
RECURSIVE text_lines(_)
text_lines(text) ==
    LET breaks == {i \in 1..Len(text) : text[i] = "\n"}
    IN  IF breaks = {} THEN <<text>>
        ELSE LET b == CHOOSE i \in breaks : \A j \in breaks : i <= j
             IN  <<Take(text, b - 1)>> \o text_lines(Drop(text, b))

BufferContent_from_str(text) == text_lines(text)

\* insert_text(position, text): the new lines and the range the text now covers
BufferContent_insert_text(buf, position, text) ==
    LET l == position.line_index + 1
        before == Take(buf[l], position.column_byte_index)
        after == Drop(buf[l], position.column_byte_index)
        pieces == text_lines(text)
        n == Len(pieces)
        inserted == IF n = 1 THEN <<before \o pieces[1] \o after>>
                    ELSE <<before \o pieces[1]>> \o SubSeq(pieces, 2, n - 1)
                            \o <<pieces[n] \o after>>
        to == IF n = 1
              THEN Pos(position.line_index, position.column_byte_index + Len(text))
              ELSE Pos(position.line_index + n - 1, Len(pieces[n]))
    IN  [buffer |-> Take(buf, l - 1) \o inserted \o Drop(buf, l),
         range |-> BufferRange(position, to)]

\* delete_range(range): the head of the first line joined to the tail of the last
BufferContent_delete_range(buf, range) ==
    LET f == range.from.line_index + 1
        t == range.to.line_index + 1
        joined == Take(buf[f], range.from.column_byte_index)
                    \o Drop(buf[t], range.to.column_byte_index)
    IN  Take(buf, f - 1) \o <<joined>> \o Drop(buf, t)

\* ---- HighlightedBuffer
\* Vec::resize(n, HighlightedLine::default())
resize(hl, n) ==
    IF n <= Len(hl) THEN Take(hl, n)
    ELSE hl \o [i \in 1..(n - Len(hl)) |-> HighlightedLine_default]

\* the `for (bline, hline) in ...zip(...)` loops that parse every line: lines
\* from..to-1 (0-based) of the overlay, as far as the buffer and the overlay go
RECURSIVE parse_lines(_, _, _, _, _, _)
parse_lines(rules, buf, hl, from, to, previous_line_kind) ==
    IF from >= to \/ from >= Len(buf) \/ from >= Len(hl)
    THEN [lines |-> hl, previous_line_kind |-> previous_line_kind]
    ELSE LET hline == parse_line(rules, buf[from + 1], previous_line_kind,
                                 hl[from + 1].tokens)
         IN  parse_lines(rules, buf, [hl EXCEPT ![from + 1] = hline], from + 1, to,
                         hline.state)

highligh_all(rules, buf, hl) ==
    parse_lines(rules, buf, resize(hl, Len(buf)), 0, Len(buf), Finished).lines

previous_line_kind_at(hl, index) ==
    IF index >= 1 THEN hl[index].state ELSE Finished

\* the loop of fix_highlight_from, which stops at the first line whose stored
\* state and incoming state are both Finished
\* what the repair leaves: the overlay, and the index of the line at which
\* the loop stopped early (NoStop when it did not)
NoStop == -1

Fixed(hl, stopped) == [lines |-> hl, stopped |-> stopped]

RECURSIVE fix_loop(_, _, _, _, _)
fix_loop(rules, buf, hl, previous_line_kind, index) ==
    IF index >= Len(buf) \/ index >= Len(hl) THEN Fixed(hl, NoStop)
    ELSE IF previous_line_kind = Finished /\ hl[index + 1].state = Finished
    THEN Fixed(hl, index)
    ELSE LET hline == parse_line(rules, buf[index + 1], previous_line_kind,
                                 hl[index + 1].tokens)
         IN  fix_loop(rules, buf, [hl EXCEPT ![index + 1] = hline], hline.state, index + 1)

fix_highlight_from(rules, buf, hl, previous_line_kind, fix_from_index) ==
    IF fix_from_index > Len(hl) THEN Fixed(hl, NoStop)
    ELSE fix_loop(rules, buf, hl, previous_line_kind, fix_from_index)

\* an on_insert that adds no line to the overlay
on_insert_no_splice(rules, buf, hl, range) ==
    LET from == range.from.line_index
        to == range.to.line_index
        parsed == parse_lines(rules, buf, hl, from, to + 1,
                              previous_line_kind_at(hl, from))
    IN  fix_highlight_from(rules, buf, parsed.lines, parsed.previous_line_kind, to + 1)

on_insert(rules, buf, hl, range) ==
    LET from == range.from.line_index
        to == range.to.line_index
        insert_count == to - from
        spliced == Take(hl, from + 1)
                    \o [i \in 1..insert_count |-> HighlightedLine_default]
                    \o Drop(hl, from + 1)
        parsed == parse_lines(rules, buf, spliced, from, from + insert_count + 1,
                              previous_line_kind_at(hl, from))
    IN  fix_highlight_from(rules, buf, parsed.lines, parsed.previous_line_kind, to + 1)

\* an on_delete that re-parses the affected line and repairs no later line
on_delete_no_repair(rules, buf, hl, range) ==
    LET from == range.from.line_index
        to == range.to.line_index
        drained == Take(hl, from) \o Drop(hl, to)
        hline == parse_line(rules, buf[from + 1], previous_line_kind_at(hl, from),
                           drained[from + 1].tokens)
    IN  Fixed([drained EXCEPT ![from + 1] = hline], NoStop)

on_delete(rules, buf, hl, range) ==
    LET from == range.from.line_index
        to == range.to.line_index
        previous_line_kind == previous_line_kind_at(hl, from)
        drained == Take(hl, from) \o Drop(hl, to)
        hline == parse_line(rules, buf[from + 1], previous_line_kind,
                           drained[from + 1].tokens)
        parsed == [drained EXCEPT ![from + 1] = hline]
    IN  fix_highlight_from(rules, buf, parsed, hline.state, to + 1)


\* ---- Client (src/client.rs)
\* the syntax of a handle that is Some
SyntaxOf(handle) == Syntaxes[handle]

\* no Insert or Delete yet: the empty range at the start of the buffer
NoRange == BufferRange(Pos(0, 0), Pos(0, 0))

\* Client::new
HlInit ==
    /\ buffer = BufferContent_from_str(<<>>)
    /\ lines = <<>>
    /\ syntax_handle = 0
    /\ last_op = "New"
    /\ ops = 0
    /\ fix_stopped = NoStop
    /\ last_range = NoRange

\* what the server may send: the texts of Buffer and Insert operations
BufferTexts == {<<>>, <<"a", " ">>, <<"o", "\n", "c">>, <<"o", "\n", "a", "\n", "c">>}

InsertTexts == {<<"o">>, <<"c">>, <<"a">>, <<" ">>, <<"\n">>, <<"c", "\n", "o">>,
                <<"\n", "\n">>}

Fits(buf) ==
    /\ Len(buf) <= MaxLines
    /\ \A i \in 1..Len(buf) : Len(buf[i]) <= MaxLineLen

Positions(buf) ==
    {Pos(l, c) : l \in 0..(Len(buf) - 1), c \in 0..MaxLineLen}
        \cap {p \in [line_index : 0..(Len(buf) - 1), column_byte_index : 0..MaxLineLen] :
                p.column_byte_index <= Len(buf[p.line_index + 1])}

PosLess(p, q) ==
    \/ p.line_index < q.line_index
    \/ p.line_index = q.line_index /\ p.column_byte_index < q.column_byte_index

\* one more operation, the other subsystems at rest
Counted ==
    /\ ops < MaxOps
    /\ ops' = ops + 1
    /\ UNCHANGED hlRest

\* EditorOperation::Buffer(content)
OpBuffer(content) ==
    LET buf == BufferContent_from_str(content)
    IN  /\ Fits(buf)
        /\ buffer' = buf
        /\ lines' = IF syntax_handle # 0
                    THEN highligh_all(SyntaxOf(syntax_handle), buf, lines)
                    ELSE lines
        /\ last_op' = "Buffer"
        /\ fix_stopped' = NoStop
        /\ last_range' = NoRange
        /\ Counted
        /\ UNCHANGED syntax_handle

\* EditorOperation::Path(path), find_by_extension finding `handle` (0: none) for it
OpPath(handle) ==
    /\ syntax_handle' = handle
    /\ lines' = IF handle # 0 THEN highligh_all(SyntaxOf(handle), buffer, lines)
                ELSE lines
    /\ last_op' = "Path"
    /\ fix_stopped' = NoStop
    /\ last_range' = NoRange
    /\ Counted
    /\ UNCHANGED buffer

\* EditorOperation::Insert(position, text)
OpInsert(position, text) ==
    LET r == BufferContent_insert_text(buffer, position, text)
    IN  /\ Fits(r.buffer)
        /\ buffer' = r.buffer
        /\ \E fixed \in {IF syntax_handle # 0
                           THEN on_insert(SyntaxOf(syntax_handle), r.buffer, lines, r.range)
                           ELSE Fixed(lines, NoStop)} :
                lines' = fixed.lines /\ fix_stopped' = fixed.stopped
        /\ last_op' = "Insert"
        /\ last_range' = r.range
        /\ Counted
        /\ UNCHANGED syntax_handle

\* EditorOperation::Delete(range)
OpDelete(range) ==
    LET buf == BufferContent_delete_range(buffer, range)
    IN  /\ buffer' = buf
        /\ \E fixed \in {IF syntax_handle # 0
                           THEN on_delete(SyntaxOf(syntax_handle), buf, lines, range)
                           ELSE Fixed(lines, NoStop)} :
                lines' = fixed.lines /\ fix_stopped' = fixed.stopped
        /\ last_op' = "Delete"
        /\ last_range' = range
        /\ Counted
        /\ UNCHANGED syntax_handle

HlNext ==
    \/ \E content \in BufferTexts : OpBuffer(content)
    \/ \E handle \in 0..Len(Syntaxes) : OpPath(handle)
    \/ \E position \in Positions(buffer), text \in InsertTexts : OpInsert(position, text)
    \/ \E from \in Positions(buffer), to \in Positions(buffer) :
            PosLess(from, to) /\ OpDelete(BufferRange(from, to))

(***************************************************************************)
(* Part 4.  Syntax::parse_line as a function of one line (src/syntax.rs).  *)
(* The rules, the line and the incoming state are drawn at the start; the  *)
(* one action applies parse_line to them.                                  *)
(***************************************************************************)
MaxParseLen == 3

\* rule sets with ties, with a later longer rule, with an earlier longer
\* rule, with a block, with a block whose body can fail, and with two blocks
\* behind a rule that matches where they stay pending
ParseSyntaxes ==
    << <<Rule("Keyword", Lit(<<"a">>)), Rule("Type", Lit(<<"a">>)),
         Rule("Symbol", Lit(<<"a", "a">>))>>,
       <<Rule("Symbol", Lit(<<"a", "a">>)), Rule("Keyword", Lit(<<"a">>)),
         Rule("Comment", Block("o", "c"))>>,
       <<Rule("String", StrictBlock("o", "c", {"a"})), Rule("Keyword", Lit(<<"c">>)),
         Rule("Type", Lit(<<"c">>))>>,
       <<Rule("Keyword", Lit(<<"o">>)), Rule("Comment", Block("o", "c")),
         Rule("String", StrictBlock("o", "c", {"a"}))>> >>

\* the chars of a line, as their UTF-8 bytes: the ASCII alphabet and one char
\* of two bytes
Chars == {<<ch>> : ch \in Alphabet} \cup {<<"M", "K">>}

RECURSIVE LinesUpTo(_)
LinesUpTo(n) ==
    IF n = 0 THEN {<<>>}
    ELSE LinesUpTo(n - 1)
            \cup {lc[1] \o lc[2] : lc \in {p \in LinesUpTo(n - 1) \X Chars :
                                                Len(p[1]) + Len(p[2]) = n}}

\* the states a previous line can have left: Finished, or Unfinished(i, s)
\* for a rule i whose pattern can stay Pending
PreviousStates(rules) ==
    {Finished} \cup {Unfinished(i - 1, "body") : i \in {j \in 1..Len(rules) :
                                                        rules[j].pattern.type = "block"}}

\* binary_search_by: Err(_)
NotFound == -1

\* slice::binary_search_by with the comparator of find_token_kind_at, on
\* tokens[left..right] (0-based): the index found, or -1 for Err
RECURSIVE binary_search_by(_, _, _, _)
binary_search_by(tokens, char_index, left, right) ==
    IF left >= right THEN NotFound
    ELSE IF char_index < tokens[left + (right - left) \div 2 + 1].from
    THEN binary_search_by(tokens, char_index, left, left + (right - left) \div 2)
    ELSE IF char_index >= tokens[left + (right - left) \div 2 + 1].to
    THEN binary_search_by(tokens, char_index, left + (right - left) \div 2 + 1, right)
    ELSE left + (right - left) \div 2

\* HighlightedBuffer::find_token_kind_at
find_token_kind_at(hlines, line_index, char_index) ==
    IF line_index >= Len(hlines) THEN "Text"
    ELSE IF binary_search_by(hlines[line_index + 1].tokens, char_index, 0,
                             Len(hlines[line_index + 1].tokens)) = NotFound
    THEN "Text"
    ELSE hlines[line_index + 1].tokens[
            binary_search_by(hlines[line_index + 1].tokens, char_index, 0,
                             Len(hlines[line_index + 1].tokens)) + 1].kind

\* what the token vector of a line can hold before a call: nothing (a
\* HighlightedLine::default()) or the tokens of an earlier text of the line
StaleTokens == {<<>>,
                <<Token("Text", 0, 1)>>,
                <<Token("Comment", 0, 2), Token("Keyword", 2, 3)>>}

\* the line before its first parse, its vector holding `tokens`
ParseBefore(tokens) ==
    [run |-> FALSE, again |-> FALSE, state |-> Finished, tokens |-> tokens, held |-> tokens]

ParseNotRunYet == ParseBefore(<<>>)

ParseInit ==
    /\ p_syntax \in 1..Len(ParseSyntaxes)
    /\ p_line \in LinesUpTo(MaxParseLen)
    /\ p_previous \in PreviousStates(ParseSyntaxes[p_syntax])
    /\ p_out \in {ParseBefore(tokens) : tokens \in StaleTokens}

ParseIdle ==
    /\ p_syntax = 1
    /\ p_line = <<>>
    /\ p_previous = Finished
    /\ p_out = ParseNotRunYet

\* let state = syntax.parse_line(line, previous_line_kind, &mut tokens)
ParseLine ==
    /\ ~p_out.run
    /\ \E hl \in {parse_line(ParseSyntaxes[p_syntax], p_line, p_previous, p_out.tokens)} :
            p_out' = [p_out EXCEPT !.run = TRUE, !.state = hl.state, !.tokens = hl.tokens]
    /\ UNCHANGED <<p_syntax, p_line, p_previous>>
    /\ UNCHANGED parseRest

\* the same call again, text and carry unchanged, on the vector the first
\* call filled
ReparseLine ==
    /\ p_out.run /\ ~p_out.again
    /\ \E hl \in {parse_line(ParseSyntaxes[p_syntax], p_line, p_previous, p_out.tokens)} :
            p_out' = [p_out EXCEPT !.again = TRUE, !.state = hl.state, !.tokens = hl.tokens]
    /\ UNCHANGED <<p_syntax, p_line, p_previous>>
    /\ UNCHANGED parseRest

ParseNext == ParseLine \/ ReparseLine

(***************************************************************************)
(* Part 5.  The `try` command (src/command/builtin.rs).                    *)
(*                                                                         *)
(* A block of commands is a sequence over "ok" (a command that returns     *)
(* Ok(None)), "fail" (a command that returns an error) and "quit" (a       *)
(* command that returns Ok(Some(Quit))).                                   *)
(***************************************************************************)
MaxBlockLen == 2

CmdOk(op) == [kind |-> "Ok", op |-> op, err |-> "none"]

CmdErr(err) == [kind |-> "Err", op |-> "None", err |-> err]

\* the func of the command a word names
command_func(command) ==
    CASE command = "ok" -> CmdOk("None")
      [] command = "quit" -> CmdOk("Quit")
      [] OTHER -> CmdErr("CommandNotFound")

\* CommandManager::eval: the commands in order, up to the first one that
\* returns an error or an operation; `trace` gets the commands evaluated
RECURSIVE CommandManager_eval(_, _, _)
CommandManager_eval(commands, block, trace) ==
    IF commands = <<>> THEN [res |-> CmdOk("None"), trace |-> trace]
    ELSE LET r == command_func(Head(commands))
             seen == Append(trace, [block |-> block, command |-> Head(commands)])
         IN  IF r.kind = "Err" \/ r.op # "None" THEN [res |-> r, trace |-> seen]
             ELSE CommandManager_eval(Tail(commands), block, seen)

run_commands(commands, block, trace) ==
    LET e == CommandManager_eval(commands, block, trace)
    IN  IF e.res.kind = "Ok" THEN e
        ELSE [res |-> CmdErr("EvalCommandError"), trace |-> e.trace]

\* a value of the command line: a word, or a block of commands
Word(word) == [word |-> word, commands |-> <<"fail">>]

BlockValue(commands) == [word |-> "", commands |-> commands]

TryOut(res, calls, trace) == [run |-> TRUE, res |-> res, calls |-> calls, trace |-> trace]

\* a variant of the func of `try`: the error of the try block is returned
try_func_propagate(bang, values) ==
    IF bang THEN TryOut(CmdErr("CommandDoesNotAcceptBang"), <<>>, <<>>)
    ELSE IF Len(values) = 0 THEN TryOut(CmdErr("TooFewArguments"), <<>>, <<>>)
    ELSE IF Len(values) >= 2 /\ values[2].word # "catch"
         THEN TryOut(CmdErr("InvalidToken"), <<>>, <<>>)
    ELSE IF Len(values) = 2 THEN TryOut(CmdErr("TooFewArguments"), <<>>, <<>>)
    ELSE LET t == run_commands(values[1].commands, "try", <<>>)
         IN  TryOut(t.res, <<"try">>, t.trace)

\* the func of `try`
try_func(bang, values) ==
    IF bang THEN TryOut(CmdErr("CommandDoesNotAcceptBang"), <<>>, <<>>)
    ELSE IF Len(values) = 0 THEN TryOut(CmdErr("TooFewArguments"), <<>>, <<>>)
    ELSE IF Len(values) >= 2 /\ values[2].word # "catch"
         THEN TryOut(CmdErr("InvalidToken"), <<>>, <<>>)
    ELSE IF Len(values) = 2 THEN TryOut(CmdErr("TooFewArguments"), <<>>, <<>>)
    ELSE LET t == run_commands(values[1].commands, "try", <<>>)
         IN  IF t.res.kind = "Ok" THEN TryOut(t.res, <<"try">>, t.trace)
             ELSE IF Len(values) >= 3
                  THEN LET c == run_commands(values[3].commands, "catch", t.trace)
                       IN  TryOut(c.res, <<"try", "catch">>, c.trace)
                  ELSE TryOut(CmdOk("None"), <<"try">>, t.trace)

RECURSIVE BlocksUpTo(_)
BlocksUpTo(n) ==
    IF n = 0 THEN {<<>>}
    ELSE BlocksUpTo(n - 1) \cup {Append(b, c) : b \in {m \in BlocksUpTo(n - 1) : Len(m) = n - 1},
                                                c \in {"ok", "fail", "quit"}}

TryValues ==
    LET blocks == {BlockValue(b) : b \in BlocksUpTo(MaxBlockLen)}
        words == {Word("catch"), Word("other")}
    IN  {<<>>} \cup {<<b>> : b \in blocks} \cup {<<b, w>> : b \in blocks, w \in words}
        \cup {<<b, w, c>> : b \in blocks, w \in words, c \in blocks}

TryNotRun == [run |-> FALSE, res |-> CmdOk("None"), calls |-> <<>>, trace |-> <<>>]

TryInit ==
    /\ t_bang \in BOOLEAN
    /\ t_values \in TryValues
    /\ t_out = TryNotRun

TryIdle ==
    /\ t_bang = FALSE
    /\ t_values = <<>>
    /\ t_out = TryNotRun

\* try[!] <values...>
TryCommand ==
    /\ ~t_out.run
    /\ t_out' = try_func(t_bang, t_values)
    /\ UNCHANGED <<t_bang, t_values>>
    /\ UNCHANGED tryRest

TryNext == TryCommand

(***************************************************************************)
(* Part 6.  The `execute-keys` command (src/command/builtin.rs).           *)
(*                                                                         *)
(* Two clients, 1 and 2, are connected; each has a buffer and a list of    *)
(* operations the server will send it.  Texts are sequences of char codes. *)
(***************************************************************************)
MaxCommands == 2

ClientHandles == {1, 2}

\* Editor::execute_keys on behalf of client_handle, key by key: in Normal
\* mode `i` enters Insert mode; in Insert mode a Char is inserted at the end
\* of the client's buffer and an Insert operation is queued for that client,
\* and Esc returns to Normal mode
RECURSIVE Editor_execute_keys(_, _, _)
Editor_execute_keys(ed, client_handle, keys) ==
    IF keys = <<>> THEN ed
    ELSE LET k == Head(keys)
             next ==
                CASE ed.mode = "Normal" /\ k = MkKey("Char", 105) ->
                        [ed EXCEPT !.mode = "Insert"]
                  [] ed.mode = "Insert" /\ k.kind = "Char" ->
                        [ed EXCEPT
                            !.buffers[client_handle] = Append(@, k.arg),
                            !.ops[client_handle] =
                                Append(@, [op |-> "Insert",
                                           position |-> Len(ed.buffers[client_handle]),
                                           text |-> <<k.arg>>])]
                  [] ed.mode = "Insert" /\ k.kind = "Esc" ->
                        [ed EXCEPT !.mode = "Normal"]
                  [] OTHER -> ed
         IN  Editor_execute_keys(next, client_handle, Tail(keys))

\* BufferedKeys::parse: parse_key until the text is used up
RECURSIVE BufferedKeys_parse(_, _)
BufferedKeys_parse(text, keys) ==
    IF text = <<>> THEN [ok |-> TRUE, keys |-> keys]
    ELSE LET r == parse_key(text)
         IN  IF r.ok THEN BufferedKeys_parse(r.rest, Append(keys, r.val))
             ELSE [ok |-> FALSE, keys |-> <<>>]

\* flag.text.parse::<ClientHandle>(): one decimal digit here; 0 = no handle
ClientHandle_from_str(text) ==
    IF Len(text) = 1 /\ is_digit(text[1]) THEN [ok |-> TRUE, handle |-> text[1] - 48]
    ELSE [ok |-> FALSE, handle |-> 0]

NoFlag == [set |-> FALSE, text |-> <<>>]

Flag(text) == [set |-> TRUE, text |-> text]

ExecOut(res, ed) == [res |-> res, editor |-> ed]

\* the EditorControlFlow values Editor::execute_keys returns
EditorControlFlows == {"Continue", "Quit", "QuitAll"}

\* execute-keys: the command's result for the flow execute_keys returned
FlowResult(flow) ==
    CASE flow = "Continue" -> CmdOk("None")
      [] flow = "Quit" -> CmdOk("Quit")
      [] flow = "QuitAll" -> CmdOk("QuitAll")

\* a variant of the func of `execute-keys`: the mode the keys ended in stays
execute_keys_func_no_restore(ed, ctx_client_handle, flag, keys, flow) ==
    LET parsed == ClientHandle_from_str(flag.text)
    IN  IF flag.set /\ ~parsed.ok THEN ExecOut(CmdErr("InvalidToken"), ed)
        ELSE LET client == IF flag.set THEN parsed.handle ELSE ctx_client_handle
             IN  IF client = 0 THEN ExecOut(CmdOk("None"), ed)
                 ELSE LET ks == BufferedKeys_parse(keys, <<>>)
                      IN  IF ~ks.ok THEN ExecOut(CmdErr("BufferedKeysParseError"), ed)
                          ELSE ExecOut(FlowResult(flow),
                                       Editor_execute_keys(
                                            [ed EXCEPT !.mode = "Normal"], client, ks.keys))

\* a variant of the func of `execute-keys`: the -client flag is parsed and
\* then the keys run for the client that gave the command
execute_keys_func_own_client(ed, ctx_client_handle, flag, keys, flow) ==
    LET parsed == ClientHandle_from_str(flag.text)
    IN  IF flag.set /\ ~parsed.ok THEN ExecOut(CmdErr("InvalidToken"), ed)
        ELSE IF ctx_client_handle = 0 THEN ExecOut(CmdOk("None"), ed)
        ELSE LET ks == BufferedKeys_parse(keys, <<>>)
             IN  IF ~ks.ok THEN ExecOut(CmdErr("BufferedKeysParseError"), ed)
                 ELSE LET mode == ed.mode
                          ran == Editor_execute_keys([ed EXCEPT !.mode = "Normal"],
                                                     ctx_client_handle, ks.keys)
                      IN  ExecOut(FlowResult(flow), [ran EXCEPT !.mode = mode])

\* the func of `execute-keys`; ctx_client_handle is 0 for None, flow is the
\* EditorControlFlow that Editor::execute_keys returns for the keys
execute_keys_func(ed, ctx_client_handle, flag, keys, flow) ==
    LET parsed == ClientHandle_from_str(flag.text)
    IN  IF flag.set /\ ~parsed.ok THEN ExecOut(CmdErr("InvalidToken"), ed)
        ELSE LET client == IF flag.set THEN parsed.handle ELSE ctx_client_handle
             IN  IF client = 0 THEN ExecOut(CmdOk("None"), ed)
                 ELSE LET ks == BufferedKeys_parse(keys, <<>>)
                      IN  IF ~ks.ok THEN ExecOut(CmdErr("BufferedKeysParseError"), ed)
                          ELSE LET mode == ed.mode
                                   ran == Editor_execute_keys(
                                            [ed EXCEPT !.mode = "Normal"], client, ks.keys)
                               IN  ExecOut(FlowResult(flow), [ran EXCEPT !.mode = mode])

\* "ih<esc>", "ih", "h", "<esc>" and the unfinished "<e"
KeysTexts == {<<105, 104, 60, 101, 115, 99, 62>>, <<105, 104>>, <<104>>,
              <<60, 101, 115, 99, 62>>, <<60, 101>>}

\* no flag, -client=1, -client=2, -client=x
Flags == {NoFlag, Flag(<<49>>), Flag(<<50>>), Flag(<<120>>)}

ExecNone == [run |-> FALSE, client |-> 0, flag |-> NoFlag, keys |-> <<>>,
             res |-> CmdOk("None")]

ExecInit ==
    /\ editor = [mode |-> "Normal",
                 buffers |-> [c \in ClientHandles |-> <<>>],
                 ops |-> [c \in ClientHandles |-> <<>>]]
    /\ exec_last = ExecNone
    /\ exec_count = 0

\* the client `client` (0: no client, a config file) runs
\* execute-keys [-client=<flag>] <keys>
ExecuteKeys(client, flag, keys, flow) ==
    /\ exec_count < MaxCommands
    /\ exec_count' = exec_count + 1
    /\ \E out \in {execute_keys_func(editor, client, flag, keys, flow)} :
            /\ editor' = out.editor
            /\ exec_last' = [run |-> TRUE, client |-> client, flag |-> flag,
                             keys |-> keys, res |-> out.res]
    /\ UNCHANGED execRest

\* a client enters or leaves Insert mode by its own keys
SwitchMode ==
    /\ exec_count < MaxCommands
    /\ editor' = [editor EXCEPT !.mode = IF @ = "Normal" THEN "Insert" ELSE "Normal"]
    /\ UNCHANGED <<exec_last, exec_count>>
    /\ UNCHANGED execRest

ExecNext ==
    \/ \E client \in ClientHandles \cup {0}, flag \in Flags, keys \in KeysTexts,
          flow \in EditorControlFlows :
            ExecuteKeys(client, flag, keys, flow)
    \/ SwitchMode

(***************************************************************************)
(* Part 7.  Command mode (src/mode/command.rs) among the modes it is       *)
(* entered from.                                                           *)
(***************************************************************************)
MaxKeys == 6

MaxInput == 2

\* FromMode: the modes command mode is entered from
FromModes == {"Normal", "Select"}

FromMode_as_mode(fm) ==
    CASE fm = "Normal" -> "Normal"
      [] fm = "Select" -> "Select"

OpNone == [op |-> "None", mode |-> "", name |-> <<>>, args |-> <<>>]

EnterMode(m) == [op |-> "EnterMode", mode |-> m, name |-> <<>>, args |-> <<>>]

\* the Operation of an executed command, with the name and arguments it got
Executed(op, name, args) == [op EXCEPT !.name = name, !.args = args]

\* poll_input: Esc cancels, Enter submits, a Char is appended to the input
poll_input(text, k) ==
    CASE k.kind = "Esc" -> [result |-> "Canceled", input |-> text]
      [] k.kind = "Enter" -> [result |-> "Submited", input |-> text]
      [] k.kind = "Char" -> [result |-> "Pending", input |-> Append(text, k.arg)]
      [] OTHER -> [result |-> "Pending", input |-> text]

\* ctx.input.find(' '): 0 for None
find_space(text) ==
    LET hits == {i \in 1..Len(text) : text[i] = 32}
    IN  IF hits = {} THEN 0 ELSE CHOOSE i \in hits : \A j \in hits : i <= j

command_on_enter(text) == <<>>

\* a variant of on_event: a cancelled command mode enters Normal mode
command_on_event_to_normal(text, fm, k, executed) ==
    LET polled == poll_input(text, k)
    IN  CASE polled.result = "Canceled" ->
                [op |-> EnterMode("Normal"), input |-> polled.input]
          [] polled.result = "Submited" ->
                LET index == find_space(polled.input)
                    command_name == IF index > 0 THEN Take(polled.input, index - 1)
                                    ELSE polled.input
                    command_args == IF index > 0 THEN Drop(polled.input, index - 1)
                                    ELSE <<>>
                IN  [op |-> Executed(executed, command_name, command_args),
                     input |-> polled.input]
          [] OTHER -> [op |-> OpNone, input |-> polled.input]

\* mode::command::on_event; `executed` is what ctx.commands.execute returns
command_on_event(text, fm, k, executed) ==
    LET polled == poll_input(text, k)
    IN  CASE polled.result = "Canceled" ->
                [op |-> EnterMode(FromMode_as_mode(fm)), input |-> polled.input]
          [] polled.result = "Submited" ->
                LET index == find_space(polled.input)
                    command_name == IF index > 0 THEN Take(polled.input, index - 1)
                                    ELSE polled.input
                    command_args == IF index > 0 THEN Drop(polled.input, index - 1)
                                    ELSE <<>>
                IN  [op |-> Executed(executed, command_name, command_args),
                     input |-> polled.input]
          [] OTHER -> [op |-> OpNone, input |-> polled.input]

ModeKeys == {MkKey("Esc", 0), MkKey("Enter", 0), MkKey("Char", 113), MkKey("Char", 32)}

\* what a command can return to command mode
CommandOperations == {EnterMode("Normal"), EnterMode("Select")}

ModeNoKey == [key |-> KeyNone, mode |-> "Normal", from_mode |-> "Normal", op |-> OpNone]

ModeInit ==
    /\ editor_mode = "Normal"
    /\ from_mode = "Normal"
    /\ ctx_input = <<>>
    /\ mode_last = ModeNoKey
    /\ mode_keys = 0

\* one more key is handled
KeyCounted == mode_keys < MaxKeys /\ mode_keys' = mode_keys + 1 /\ UNCHANGED modeRest

\* `:` in Normal or Select mode: EnterMode(Command(from)), then on_enter
EnterCommandMode ==
    /\ KeyCounted
    /\ editor_mode \in FromModes
    /\ editor_mode' = "Command"
    /\ from_mode' = editor_mode
    /\ ctx_input' = command_on_enter(ctx_input)
    /\ mode_last' = [key |-> MkKey("Char", 58), mode |-> editor_mode, from_mode |-> from_mode,
                     op |-> EnterMode("Command")]

\* `v` in Normal mode enters Select mode
EnterSelectMode ==
    /\ KeyCounted
    /\ editor_mode = "Normal"
    /\ editor_mode' = "Select"
    /\ mode_last' = [key |-> MkKey("Char", 118), mode |-> editor_mode, from_mode |-> from_mode,
                     op |-> EnterMode("Select")]
    /\ UNCHANGED <<from_mode, ctx_input>>

\* Esc in Select mode enters Normal mode
CancelSelectMode ==
    /\ KeyCounted
    /\ editor_mode = "Select"
    /\ editor_mode' = "Normal"
    /\ mode_last' = [key |-> MkKey("Esc", 0), mode |-> editor_mode, from_mode |-> from_mode,
                     op |-> EnterMode("Normal")]
    /\ UNCHANGED <<from_mode, ctx_input>>

\* a key in command mode: on_event, then the Operation it returns
CommandModeKey(k, executed) ==
    /\ KeyCounted
    /\ editor_mode = "Command"
    /\ k.kind = "Char" => Len(ctx_input) < MaxInput
    /\ \E r \in {command_on_event(ctx_input, from_mode, k, executed)} :
            /\ ctx_input' = r.input
            /\ editor_mode' = IF r.op.op = "EnterMode" THEN r.op.mode ELSE editor_mode
            /\ mode_last' = [key |-> k, mode |-> editor_mode, from_mode |-> from_mode, op |-> r.op]
    /\ UNCHANGED from_mode

ModeNext ==
    \/ EnterCommandMode
    \/ EnterSelectMode
    \/ CancelSelectMode
    \/ \E k \in ModeKeys, executed \in CommandOperations : CommandModeKey(k, executed)

(***************************************************************************)
(* The specifications: one per subsystem, the others at rest.              *)
(***************************************************************************)
(***************************************************************************)
(* Part 8.  The `quit` and `quit-all` commands (src/command/builtin.rs).   *)
(*                                                                         *)
(* The arguments of a command are its bang and how many flags and values   *)
(* follow its name; the editor is its buffers, each with or without        *)
(* unsaved changes.                                                        *)
(***************************************************************************)
MaxClients == 2

MaxBuffers == 2

Args(bang, flags, values) == [bang |-> bang, flags |-> flags, values |-> values]

\* args.get_flags(&mut []): no flag is known to these commands
get_flags_none(args) == IF args.flags = 0 THEN CmdOk("None") ELSE CmdErr("UnknownFlag")

\* args.assert_empty()
assert_empty(args) == IF args.values = 0 THEN CmdOk("None") ELSE CmdErr("TooManyArguments")

\* ctx.assert_can_discard_all_buffers(): with '!' unsaved changes are discarded
assert_can_discard_all_buffers(args, needs_save) ==
    IF args.bang \/ \A b \in 1..Len(needs_save) : ~needs_save[b]
    THEN CmdOk("None") ELSE CmdErr("UnsavedChanges")

\* a quit that never looks at the buffers
quit_func_unchecked(args, clients_count, needs_save) ==
    IF get_flags_none(args).kind = "Err" THEN get_flags_none(args)
    ELSE IF assert_empty(args).kind = "Err" THEN assert_empty(args)
    ELSE CmdOk("Quit")

\* the func of quit
quit_func(args, clients_count, needs_save) ==
    IF get_flags_none(args).kind = "Err" THEN get_flags_none(args)
    ELSE IF assert_empty(args).kind = "Err" THEN assert_empty(args)
    ELSE IF clients_count = 1
            /\ assert_can_discard_all_buffers(args, needs_save).kind = "Err"
    THEN assert_can_discard_all_buffers(args, needs_save)
    ELSE CmdOk("Quit")

\* the func of quit-all
quit_all_func(args, needs_save) ==
    IF get_flags_none(args).kind = "Err" THEN get_flags_none(args)
    ELSE IF assert_empty(args).kind = "Err" THEN assert_empty(args)
    ELSE IF assert_can_discard_all_buffers(args, needs_save).kind = "Err"
    THEN assert_can_discard_all_buffers(args, needs_save)
    ELSE CmdOk("QuitAll")

RECURSIVE BoolSeqsUpTo(_)
BoolSeqsUpTo(n) ==
    IF n = 0 THEN {<<>>}
    ELSE BoolSeqsUpTo(n - 1)
         \cup {Append(q, b) : q \in {r \in BoolSeqsUpTo(n - 1) : Len(r) = n - 1},
                              b \in BOOLEAN}

QuitNotRun == [run |-> FALSE, cmd |-> "none", res |-> CmdOk("None")]

QuitInit ==
    /\ q_clients \in 0..MaxClients
    /\ q_needs_save \in BoolSeqsUpTo(MaxBuffers)
    /\ q_args \in {Args(bang, flags, values) :
                        bang \in BOOLEAN, flags \in 0..1, values \in 0..1}
    /\ q_out = QuitNotRun

QuitIdle ==
    /\ q_clients = 0
    /\ q_needs_save = <<>>
    /\ q_args = Args(FALSE, 0, 0)
    /\ q_out = QuitNotRun

\* quit[!]
QuitCommand ==
    /\ ~q_out.run
    /\ q_out' = [run |-> TRUE, cmd |-> "quit",
                 res |-> quit_func(q_args, q_clients, q_needs_save)]
    /\ UNCHANGED <<q_clients, q_needs_save, q_args>>
    /\ UNCHANGED quitRest

\* quit-all[!]
QuitAllCommand ==
    /\ ~q_out.run
    /\ q_out' = [run |-> TRUE, cmd |-> "quit-all",
                 res |-> quit_all_func(q_args, q_needs_save)]
    /\ UNCHANGED <<q_clients, q_needs_save, q_args>>
    /\ UNCHANGED quitRest

QuitCmdNext == QuitCommand \/ QuitAllCommand

(***************************************************************************)
(* Part 9.  The lsp-start, lsp-stop and lsp-stop-all commands              *)
(* (src/command/builtin.rs).                                               *)
(*                                                                         *)
(* A running lsp client is known by the root it serves (1..MaxRoots); the  *)
(* current buffer by the root its path lies under, 0 when it has no path   *)
(* under any root, NoBuffer when no buffer is open.                        *)
(***************************************************************************)
MaxLspClients == 2

MaxRoots == 2

MaxLspCommands == 4

LspHandles == 0..(MaxLspClients - 1)

NoBuffer == -1

\* Client::handles_path
handles_path(root, buffer_path) == buffer_path # 0 /\ root = buffer_path

\* editor.lsp.clients(): the handles of the entries that are Some
lsp_clients(entries) == {h \in LspHandles : entries[h] # 0}

\* find_lsp_client_for_buffer: the first client that handles the buffer's path
find_lsp_client_for_buffer(entries, buffer_path) ==
    LET found == {h \in lsp_clients(entries) : handles_path(entries[h], buffer_path)}
    IN  IF buffer_path = 0 \/ found = {} THEN -1
        ELSE CHOOSE h \in found : \A g \in found : h <= g

\* ClientManager::stop and ClientManager::stop_all
lsp_stop(entries, handle) == [entries EXCEPT ![handle] = 0]

lsp_stop_all(entries) == [h \in LspHandles |-> 0]

\* the func of lsp-stop: its result and the clients it leaves
lsp_stop_func(entries, current) ==
    IF current = NoBuffer THEN [res |-> CmdErr("NoBufferOpened"), entries |-> entries]
    ELSE IF find_lsp_client_for_buffer(entries, current) # -1
    THEN [res |-> CmdOk("None"),
          entries |-> lsp_stop(entries, find_lsp_client_for_buffer(entries, current))]
    ELSE [res |-> CmdOk("None"), entries |-> lsp_stop_all(entries)]

LspInit ==
    /\ lsp_entries = [h \in LspHandles |-> 0]
    /\ lsp_last = [cmd |-> "none", buffer |-> NoBuffer,
                   before |-> [h \in LspHandles |-> 0], res |-> CmdOk("None")]
    /\ lsp_count = 0

\* lsp-start -root=<root> <lsp-command>: the client takes the first free slot
LspStart(root) ==
    /\ lsp_count < MaxLspCommands
    /\ \E h \in LspHandles :
        /\ lsp_entries[h] = 0
        /\ \A g \in LspHandles : g < h => lsp_entries[g] # 0
        /\ lsp_entries' = [lsp_entries EXCEPT ![h] = root]
    /\ lsp_last' = [cmd |-> "lsp-start", buffer |-> NoBuffer, before |-> lsp_entries,
                    res |-> CmdOk("None")]
    /\ lsp_count' = lsp_count + 1
    /\ UNCHANGED lspRest

\* lsp-stop, the current buffer being `current`
LspStop(current) ==
    /\ lsp_count < MaxLspCommands
    /\ lsp_entries' = lsp_stop_func(lsp_entries, current).entries
    /\ lsp_last' = [cmd |-> "lsp-stop", buffer |-> current, before |-> lsp_entries,
                    res |-> lsp_stop_func(lsp_entries, current).res]
    /\ lsp_count' = lsp_count + 1
    /\ UNCHANGED lspRest

\* lsp-stop-all
LspStopAll ==
    /\ lsp_count < MaxLspCommands
    /\ lsp_entries' = lsp_stop_all(lsp_entries)
    /\ lsp_last' = [cmd |-> "lsp-stop-all", buffer |-> NoBuffer, before |-> lsp_entries,
                    res |-> CmdOk("None")]
    /\ lsp_count' = lsp_count + 1
    /\ UNCHANGED lspRest

LspNext ==
    \/ \E root \in 1..MaxRoots : LspStart(root)
    \/ \E current \in NoBuffer..MaxRoots : LspStop(current)
    \/ LspStopAll

(***************************************************************************)
(* Part 10.  One call of receive_keys or receive_operations, step by step  *)
(* (src/connection.rs): the guard over the ReadBuf, the reads of           *)
(* ReadGuard::read_from, the decoding loop, and the guard's drop on every  *)
(* way out.                                                                *)
(*   rd_buf     the ReadBuf of the connection manager (receive_keys) or of *)
(*              the ConnectionWithServer (receive_operations)              *)
(*   rd_pc      "idle", "read" (in the loop of read_from), "decode" (after *)
(*              read_from), "returned"                                     *)
(*   rd_fn      the function that is running or ran last                   *)
(*   rd_wire    the bytes pending on the stream                            *)
(*   rd_result  what the latest call returned                              *)
(*   rd_last    what the latest step was                                   *)
(*   rd_calls   the calls so far                                           *)
(*   rd_seen    the bytes the latest call decoded and the events it gave   *)
(*              to the callback                                            *)
(***************************************************************************)
MaxReadCalls == 2

\* a command text as long as the buffer's first capacity
LongText == [i \in 1..ReadBufCapacity |-> 97]

\* what can be pending on the stream when a call starts
ReadWires ==
    {<<>>,
     MalformedBytes,
     serialize_all(<<EventKey(NoTarget, MkKey("Char", 97))>>),
     serialize_all(<<EventKey(NoTarget, MkKey("Char", 97)), EventCommand(NoTarget, QuitText),
                     EventKey(NoTarget, MkKey("Esc", 0))>>),
     serialize_all(<<EventCommand(NoTarget, LongText)>>),
     serialize_all(<<EventCommand(NoTarget, LongText), EventCommand(NoTarget, LongText),
                     EventKey(NoTarget, MkKey("Esc", 0))>>)}

\* how many bytes one reader.read may return: at least one, at most what is
\* pending and what the buffer has room for
ReadSizes(space, pending) ==
    {n \in {1, 7, 9, Min(space, pending)} : n >= 1 /\ n <= Min(space, pending)}

\* ---- ReadGuard::read_from, the Ok(len) arm of one reader.read: self.0.len += len
ReadGuard_read_overwrite(buf, chunk) ==
    [buf EXCEPT !.len = Len(chunk), !.data = chunk]

ReadGuard_read(buf, chunk) ==
    [buf EXCEPT !.len = buf.len + Len(chunk),
                !.data = Take(buf.data, buf.len) \o chunk]

\* ---- ReadGuard::read_from: self.0.buf.resize(self.0.buf.len() * 2, 0)
ReadGuard_resize(buf) == [buf EXCEPT !.cap = 2 * buf.cap]

\* ---- the decoding loop of receive_operations: what it returns for the bytes
\* ---- read (EditorOperationDeserializer is no part of these sources)
receive_operations_results(bytes) ==
    IF bytes = <<>> THEN {"None"} ELSE {"None", "Some", "Err"}

\* a call that has read and dispatched nothing
NothingSeen == [read |-> <<>>, events |-> <<>>]

ReadInit ==
    /\ rd_buf = ReadBuf_new
    /\ rd_pc = "idle"
    /\ rd_fn = "none"
    /\ rd_wire = <<>>
    /\ rd_result = "none"
    /\ rd_last = "none"
    /\ rd_calls = 0
    /\ rd_seen = NothingSeen

ReadCallable == rd_pc \in {"idle", "returned"} /\ rd_calls < MaxReadCalls

\* receive_keys for a handle whose slot is None: Ok(Quit), no guard taken
ReceiveKeysNone ==
    /\ ReadCallable
    /\ rd_calls' = rd_calls + 1
    /\ rd_fn' = "receive_keys"
    /\ rd_pc' = "returned"
    /\ rd_result' = "Quit"
    /\ rd_last' = "NoConnection"
    /\ rd_seen' = NothingSeen
    /\ UNCHANGED <<rd_buf, rd_wire>>
    /\ UNCHANGED readRest

\* receive_keys / receive_operations up to self.read_buf.guard()
ReceiveBegin(fn_name, pending) ==
    /\ ReadCallable
    /\ rd_calls' = rd_calls + 1
    /\ rd_fn' = fn_name
    /\ rd_wire' = pending
    /\ rd_seen' = NothingSeen
    /\ rd_pc' = "read"
    /\ rd_result' = "none"
    /\ rd_last' = "Guard"
    /\ UNCHANGED rd_buf
    /\ UNCHANGED readRest

\* one reader.read that returns Ok(n), n > 0, and what the loop does next
ReadOk(n) ==
    /\ rd_pc = "read"
    /\ \E got \in {ReadGuard_read(rd_buf, Take(rd_wire, n))} :
            IF got.len < got.cap
            THEN rd_buf' = got /\ rd_pc' = "decode"
            ELSE rd_buf' = ReadGuard_resize(got) /\ rd_pc' = "read"
    /\ rd_wire' = Drop(rd_wire, n)
    /\ rd_last' = "Ok"
    /\ UNCHANGED <<rd_fn, rd_result, rd_calls, rd_seen>>
    /\ UNCHANGED readRest

\* reader.read returns Ok(0): the peer closed the stream
ReadEof ==
    /\ rd_pc = "read"
    /\ rd_wire = <<>>
    /\ \E got \in {ReadGuard_read(rd_buf, <<>>)} :
            IF got.len < got.cap
            THEN rd_buf' = got /\ rd_pc' = "decode"
            ELSE rd_buf' = ReadGuard_resize(got) /\ rd_pc' = "read"
    /\ rd_last' = "Eof"
    /\ UNCHANGED <<rd_fn, rd_result, rd_calls, rd_wire, rd_seen>>
    /\ UNCHANGED readRest

\* reader.read returns Err(WouldBlock): nothing is pending
ReadWouldBlock ==
    /\ rd_pc = "read"
    /\ rd_wire = <<>>
    /\ rd_pc' = "decode"
    /\ rd_last' = "WouldBlock"
    /\ UNCHANGED <<rd_buf, rd_fn, rd_result, rd_calls, rd_wire, rd_seen>>
    /\ UNCHANGED readRest

\* reader.read returns another error: read_from returns it, `?` returns it from
\* the call, and the guard is dropped
ReadErr ==
    /\ rd_pc = "read"
    /\ rd_buf' = ReadGuard_drop(rd_buf)
    /\ rd_pc' = "returned"
    /\ rd_result' = "Err"
    /\ rd_last' = "ReadErr"
    /\ UNCHANGED <<rd_fn, rd_calls, rd_wire, rd_seen>>
    /\ UNCHANGED readRest

\* the decoding loop over read_guard.as_bytes(), the return, the guard's drop
DecodeAndReturn ==
    /\ rd_pc = "decode"
    /\ \E got \in (IF rd_fn = "receive_keys"
                   THEN {receive_loop(ReadGuard_as_bytes(rd_buf), "Quit")}
                   ELSE {Dispatch(<<>>, res) :
                            res \in receive_operations_results(ReadGuard_as_bytes(rd_buf))}) :
            /\ rd_result' = got.result
            /\ rd_seen' = [read |-> ReadGuard_as_bytes(rd_buf), events |-> got.events]
    /\ rd_buf' = ReadGuard_drop(rd_buf)
    /\ rd_pc' = "returned"
    /\ rd_last' = "Decode"
    /\ UNCHANGED <<rd_fn, rd_calls, rd_wire>>
    /\ UNCHANGED readRest

ReadNext ==
    \/ ReceiveKeysNone
    \/ \E fn_name \in {"receive_keys", "receive_operations"}, pending \in ReadWires :
            ReceiveBegin(fn_name, pending)
    \/ \E n \in ReadSizes(rd_buf.cap - rd_buf.len, Len(rd_wire)) : ReadOk(n)
    \/ ReadEof
    \/ ReadWouldBlock
    \/ ReadErr
    \/ DecodeAndReturn

(***************************************************************************)
(* Part 11.  A client's navigation history (src/navigation_history.rs).    *)
(* A buffer view is named by the buffer it shows: a client has one view    *)
(* per buffer, and the view's cursors are reduced to its main cursor.      *)
(***************************************************************************)
MaxSnapshots == 3

NavBuffers == {1, 2}

NavCursors == {0, 1}

NavigationHistorySnapshot(buffer_handle, cursor) ==
    [buffer_handle |-> buffer_handle, cursor |-> cursor]

IterIndex(index) == [kind |-> "IterIndex", index |-> index]

Insert == [kind |-> "Insert"]

NavigationHistory(snapshots, state) == [snapshots |-> snapshots, state |-> state]

\* Default for NavigationHistory
NavigationHistory_default == NavigationHistory(<<>>, IterIndex(0))

\* Vec::truncate: no effect when n is not below the length
Vec_truncate(v, n) == IF n >= Len(v) THEN v ELSE SubSeq(v, 1, n)

\* Vec::remove at a 0-based index below the length
Vec_remove(v, i) == SubSeq(v, 1, i) \o SubSeq(v, i + 2, Len(v))

\* add_snapshot: the snapshots after the truncation of an iterating history
Truncated(history) ==
    IF history.state.kind = "IterIndex"
    THEN Vec_truncate(history.snapshots, history.state.index)
    ELSE history.snapshots

\* NavigationHistory::add_snapshot; view is the buffer handle and the main
\* cursor of the buffer view
add_snapshot(history, view) ==
    IF /\ Len(Truncated(history)) > 0
       /\ Truncated(history)[Len(Truncated(history))] = view
    THEN NavigationHistory(Truncated(history), Insert)
    ELSE NavigationHistory(Append(Truncated(history), view), Insert)

\* the client: its history, its current_buffer_view_handle (<<>> is None),
\* and the main cursor of its view of each buffer
NavClient(history, current, cursors) ==
    [navigation_history |-> history, current_buffer_view_handle |-> current,
     cursors |-> cursors]

\* the buffer view current_buffer_view_handle names, as add_snapshot reads it
CurrentView(client) ==
    IF client.current_buffer_view_handle = <<>>
    THEN <<>>
    ELSE <<NavigationHistorySnapshot(client.current_buffer_view_handle[1],
                                     client.cursors[client.current_buffer_view_handle[1]])>>

\* what one call of move_in_history did: the client it left, the 0-based
\* indexes it read from the snapshots, the snapshot it selected, the
\* buffers it gave to add_snapshot, and whether an index was out of bounds
Moved(client, read, selected, snapshotted, panicked) ==
    [client |-> client, read |-> read, selected |-> selected,
     snapshotted |-> snapshotted, panicked |-> panicked]

\* move_in_history from `history.snapshots[history_index]` on: the read
\* panics out of bounds; otherwise the state becomes IterIndex, the client
\* shows the snapshot's buffer and the view's cursors are the snapshot's
Select(client, history, history_index, snapshotted) ==
    IF history_index >= Len(history.snapshots)
    THEN Moved(NavClient(history, client.current_buffer_view_handle, client.cursors),
               <<history_index>>, <<>>, snapshotted, TRUE)
    ELSE Moved(NavClient(NavigationHistory(history.snapshots, IterIndex(history_index)),
                         <<history.snapshots[history_index + 1].buffer_handle>>,
                         [client.cursors EXCEPT
                            ![history.snapshots[history_index + 1].buffer_handle] =
                                history.snapshots[history_index + 1].cursor]),
               <<history_index>>, <<history.snapshots[history_index + 1]>>,
               snapshotted, FALSE)

\* move_in_history: the index the move starts from
HistoryIndex(history) ==
    IF history.state.kind = "IterIndex" THEN history.state.index
    ELSE Len(history.snapshots)

\* a move_in_history whose Backward never snapshots the current view
move_in_history_no_save(client, direction) ==
    IF direction = "Forward"
    THEN IF HistoryIndex(client.navigation_history) + 1
                >= Len(client.navigation_history.snapshots)
         THEN Moved(client, <<>>, <<>>, <<>>, FALSE)
         ELSE Select(client, client.navigation_history,
                     HistoryIndex(client.navigation_history) + 1, <<>>)
    ELSE IF HistoryIndex(client.navigation_history) = 0
         THEN Moved(client, <<>>, <<>>, <<>>, FALSE)
         ELSE Select(client, client.navigation_history,
                     HistoryIndex(client.navigation_history) - 1, <<>>)

\* NavigationHistory::move_in_history
move_in_history(client, direction) ==
    IF direction = "Forward"
    THEN IF HistoryIndex(client.navigation_history) + 1
                >= Len(client.navigation_history.snapshots)
         THEN Moved(client, <<>>, <<>>, <<>>, FALSE)
         ELSE Select(client, client.navigation_history,
                     HistoryIndex(client.navigation_history) + 1, <<>>)
    ELSE IF HistoryIndex(client.navigation_history) = 0
         THEN Moved(client, <<>>, <<>>, <<>>, FALSE)
         ELSE IF /\ HistoryIndex(client.navigation_history)
                        = Len(client.navigation_history.snapshots)
                 /\ CurrentView(client) # <<>>
              THEN Select(client,
                          add_snapshot(client.navigation_history, CurrentView(client)[1]),
                          HistoryIndex(client.navigation_history) - 1,
                          <<CurrentView(client)[1].buffer_handle>>)
              ELSE Select(client, client.navigation_history,
                          HistoryIndex(client.navigation_history) - 1, <<>>)

\* the loop of a remove_snapshots_with_buffer_handle that leaves the
\* iteration index alone
RECURSIVE remove_loop_keep_index(_, _, _)
remove_loop_keep_index(history, buffer_handle, n) ==
    IF n = 0 THEN history
    ELSE IF history.snapshots[n].buffer_handle = buffer_handle
         THEN remove_loop_keep_index(
                  NavigationHistory(Vec_remove(history.snapshots, n - 1), history.state),
                  buffer_handle, n - 1)
         ELSE remove_loop_keep_index(history, buffer_handle, n - 1)

\* the loop of a remove_snapshots_with_buffer_handle that stops at the
\* first snapshot it removes
RECURSIVE remove_loop_first_only(_, _, _)
remove_loop_first_only(history, buffer_handle, n) ==
    IF n = 0 THEN history
    ELSE IF history.snapshots[n].buffer_handle = buffer_handle
         THEN NavigationHistory(
                  Vec_remove(history.snapshots, n - 1),
                  IF /\ history.state.kind = "IterIndex"
                     /\ n - 1 <= history.state.index
                     /\ history.state.index > 0
                  THEN IterIndex(history.state.index - 1)
                  ELSE history.state)
         ELSE remove_loop_first_only(history, buffer_handle, n - 1)

\* the loop of remove_snapshots_with_buffer_handle, `for i in (0..len).rev()`,
\* with n - 1 the next i
RECURSIVE remove_loop(_, _, _)
remove_loop(history, buffer_handle, n) ==
    IF n = 0 THEN history
    ELSE IF history.snapshots[n].buffer_handle = buffer_handle
         THEN remove_loop(
                  NavigationHistory(
                      Vec_remove(history.snapshots, n - 1),
                      IF /\ history.state.kind = "IterIndex"
                         /\ n - 1 <= history.state.index
                         /\ history.state.index > 0
                      THEN IterIndex(history.state.index - 1)
                      ELSE history.state),
                  buffer_handle, n - 1)
         ELSE remove_loop(history, buffer_handle, n - 1)

\* NavigationHistory::remove_snapshots_with_buffer_handle
remove_snapshots_with_buffer_handle(history, buffer_handle) ==
    remove_loop(history, buffer_handle, Len(history.snapshots))

\* the latest call on the history: the history and the view before it, what
\* it read and selected, and for a Forward that follows a Backward the view
\* and the state the Backward started from
NavCall(op, arg, before, view, res, origin) ==
    [op |-> op, arg |-> arg, before |-> before, view |-> view,
     read |-> res.read, selected |-> res.selected,
     snapshotted |-> res.snapshotted, panicked |-> res.panicked,
     origin |-> origin]

NoCall ==
    NavCall("none", 0, NavigationHistory_default, <<>>,
            Moved(0, <<>>, <<>>, <<>>, FALSE), <<>>)

NavInit ==
    /\ nav_client = NavClient(NavigationHistory_default, <<>>, [b \in NavBuffers |-> 0])
    /\ nav_last = NoCall
    /\ nav_removed = {}

\* the editor shows buffer b to the client with the main cursor at c (open,
\* a cursor movement)
ClientShows(b, c) ==
    /\ ~nav_last.panicked
    /\ \E view \in {CurrentView(nav_client)} :
          nav_last' = NavCall("show", b, nav_client.navigation_history, view,
                              Moved(0, <<>>, <<>>, <<>>, FALSE), <<>>)
    /\ nav_client' = NavClient(nav_client.navigation_history, <<b>>,
                               [nav_client.cursors EXCEPT ![b] = c])
    /\ UNCHANGED nav_removed
    /\ UNCHANGED navRest

\* the client's buffer view is closed
ClientShowsNothing ==
    /\ ~nav_last.panicked
    /\ nav_client.current_buffer_view_handle # <<>>
    /\ \E view \in {CurrentView(nav_client)} :
          nav_last' = NavCall("close", 0, nav_client.navigation_history, view,
                              Moved(0, <<>>, <<>>, <<>>, FALSE), <<>>)
    /\ nav_client' = NavClient(nav_client.navigation_history, <<>>, nav_client.cursors)
    /\ UNCHANGED nav_removed
    /\ UNCHANGED navRest

\* NavigationHistory::save_client_snapshot
SaveClientSnapshot ==
    /\ ~nav_last.panicked
    /\ \E view \in {CurrentView(nav_client)} :
          \E history \in {IF view = <<>> THEN nav_client.navigation_history
                          ELSE add_snapshot(nav_client.navigation_history, view[1])} :
             /\ Len(history.snapshots) <= MaxSnapshots
             /\ nav_last' = NavCall("add_snapshot", 0, nav_client.navigation_history,
                                    view,
                                    Moved(0, <<>>, <<>>,
                                          nav_client.current_buffer_view_handle, FALSE),
                                    <<>>)
             /\ nav_client' = NavClient(history, nav_client.current_buffer_view_handle,
                                        nav_client.cursors)
    /\ nav_removed' = nav_removed \ Range(nav_client.current_buffer_view_handle)
    /\ UNCHANGED navRest

\* what a Backward records for the Forward that may follow it, and what
\* that Forward keeps of it
Origin(direction) ==
    IF direction = "Backward"
    THEN <<[state |-> nav_client.navigation_history.state,
            len |-> Len(nav_client.navigation_history.snapshots),
            view |-> CurrentView(nav_client)]>>
    ELSE IF nav_last.op = "Backward" THEN nav_last.origin ELSE <<>>

\* NavigationHistory::move_in_history on the client
MoveInHistory(direction) ==
    /\ ~nav_last.panicked
    /\ \E res \in {move_in_history(nav_client, direction)},
          view \in {CurrentView(nav_client)}, origin \in {Origin(direction)} :
          /\ Len(res.client.navigation_history.snapshots) <= MaxSnapshots
          /\ nav_last' = NavCall(direction, 0, nav_client.navigation_history,
                                 view, res, origin)
          /\ nav_client' = res.client
          /\ nav_removed' = nav_removed \ Range(res.snapshotted)
    /\ UNCHANGED navRest

\* NavigationHistory::remove_snapshots_with_buffer_handle on the client's
\* history
RemoveSnapshots(b) ==
    /\ ~nav_last.panicked
    /\ \E view \in {CurrentView(nav_client)} :
          nav_last' = NavCall("remove", b, nav_client.navigation_history, view,
                              Moved(0, <<>>, <<>>, <<>>, FALSE), <<>>)
    /\ nav_client' =
          NavClient(remove_snapshots_with_buffer_handle(nav_client.navigation_history, b),
                    nav_client.current_buffer_view_handle, nav_client.cursors)
    /\ nav_removed' = nav_removed \cup {b}
    /\ UNCHANGED navRest

NavNext ==
    \/ \E b \in NavBuffers, c \in NavCursors : ClientShows(b, c)
    \/ ClientShowsNothing
    \/ SaveClientSnapshot
    \/ \E direction \in {"Forward", "Backward"} : MoveInHistory(direction)
    \/ \E b \in NavBuffers : RemoveSnapshots(b)

(***************************************************************************)
(* Part 12.  The diagnostics an lsp client keeps (src/lsp/client.rs).      *)
(* A path is a number, the buffer opened on path p has handle p, a         *)
(* diagnostic is its message and the start of its range.                   *)
(***************************************************************************)
MaxNotifications == 3

MaxDiagnostics == 2

DiagPaths == {1, 2}

Diagnostic(message, from) == [message |-> message, from |-> from]

Diagnostics == {Diagnostic(m, f) : m \in {"a", "b"}, f \in {0, 1}}

\* the diagnostics arrays a publishDiagnostics notification can carry
RECURSIVE DiagnosticLists(_)
DiagnosticLists(n) ==
    IF n = 0 THEN {<<>>}
    ELSE DiagnosticLists(n - 1)
            \cup {Append(l, d) : l \in {k \in DiagnosticLists(n - 1) : Len(k) = n - 1},
                                 d \in Diagnostics}

BufferDiagnosticCollection(path, buffer_handle, diagnostics, len) ==
    [path |-> path, buffer_handle |-> buffer_handle,
     diagnostics |-> diagnostics, len |-> len]

\* BufferDiagnosticCollection::add
BufferDiagnosticCollection_add(c, d) ==
    IF c.len < Len(c.diagnostics)
    THEN BufferDiagnosticCollection(c.path, c.buffer_handle,
                                    [c.diagnostics EXCEPT ![c.len + 1] = d], c.len + 1)
    ELSE BufferDiagnosticCollection(c.path, c.buffer_handle,
                                    Append(c.diagnostics, d), c.len + 1)

\* slice::sort_by_key (a stable sort) with the key `d.utf16_range.from`:
\* d goes behind the elements whose key is not above its own
InsertByKey(sorted, d) ==
    Take(sorted, Cardinality({i \in DOMAIN sorted : sorted[i].from <= d.from}))
        \o <<d>>
        \o Drop(sorted, Cardinality({i \in DOMAIN sorted : sorted[i].from <= d.from}))

RECURSIVE sort_by_key(_)
sort_by_key(v) ==
    IF v = <<>> THEN <<>>
    ELSE InsertByKey(sort_by_key(Take(v, Len(v) - 1)), v[Len(v)])

\* BufferDiagnosticCollection::sort
BufferDiagnosticCollection_sort(c) ==
    BufferDiagnosticCollection(c.path, c.buffer_handle, sort_by_key(c.diagnostics), c.len)

\* DiagnosticCollection::buffer_diagnostics
RECURSIVE buffer_diagnostics(_, _)
buffer_diagnostics(collections, buffer_handle) ==
    IF collections = <<>> THEN <<>>
    ELSE IF collections[1].buffer_handle = <<buffer_handle>>
         THEN Take(collections[1].diagnostics, collections[1].len)
         ELSE buffer_diagnostics(Tail(collections), buffer_handle)

\* path_diagnostics_mut: the index of the first collection of the path, 0
\* when there is none
PathIndex(collections, path) ==
    IF \E i \in DOMAIN collections : collections[i].path = path
    THEN CHOOSE i \in DOMAIN collections :
            /\ collections[i].path = path
            /\ \A j \in DOMAIN collections : collections[j].path = path => i <= j
    ELSE 0

\* path_diagnostics_mut: the buffer of ctx.buffers whose path is `path`
\* (<<>> is None)
BufferOfPath(buffers, path) == IF path \in buffers THEN <<path>> ELSE <<>>

\* DiagnosticCollection::path_diagnostics_mut: the collections it leaves; the
\* collection it returns is the one at PathIndex, or the last when pushed
path_diagnostics_mut(collections, buffers, path) ==
    IF PathIndex(collections, path) # 0
    THEN [collections EXCEPT ![PathIndex(collections, path)].len = 0]
    ELSE Append(collections,
                BufferDiagnosticCollection(path, BufferOfPath(buffers, path), <<>>, 0))

\* Vec::swap_remove at a 1-based index
Vec_swap_remove(v, i) ==
    IF i = Len(v) THEN Take(v, Len(v) - 1)
    ELSE Take([v EXCEPT ![i] = v[Len(v)]], Len(v) - 1)

\* DiagnosticCollection::clear_empty, `for i in (0..len).rev()`, n - 1 the next i
RECURSIVE clear_empty_loop(_, _)
clear_empty_loop(collections, n) ==
    IF n = 0 THEN collections
    ELSE IF collections[n].len = 0
         THEN clear_empty_loop(Vec_swap_remove(collections, n), n - 1)
         ELSE clear_empty_loop(collections, n - 1)

clear_empty(collections) == clear_empty_loop(collections, Len(collections))

\* on_notification: the loop over params.diagnostics, calling add on the
\* collection at index i
RECURSIVE add_all(_, _, _)
add_all(collections, i, diagnostics) ==
    IF diagnostics = <<>> THEN collections
    ELSE add_all([collections EXCEPT
                     ![i] = BufferDiagnosticCollection_add(collections[i], diagnostics[1])],
                 i, Tail(diagnostics))

\* the index of the collection path_diagnostics_mut returned
ReturnedIndex(before, path) ==
    IF PathIndex(before, path) # 0 THEN PathIndex(before, path) ELSE Len(before) + 1

\* Client::on_notification for "textDocument/publishDiagnostics" with a uri
\* that parses to `path`
on_notification(collections, buffers, path, diagnostics) ==
    clear_empty(
        [add_all(path_diagnostics_mut(collections, buffers, path),
                 ReturnedIndex(collections, path), diagnostics)
            EXCEPT ![ReturnedIndex(collections, path)] =
                BufferDiagnosticCollection_sort(
                    add_all(path_diagnostics_mut(collections, buffers, path),
                            ReturnedIndex(collections, path),
                            diagnostics)[ReturnedIndex(collections, path)])])

DiagInit ==
    /\ diag_collections = <<>>
    /\ diag_last = [uri |-> <<>>, diagnostics |-> <<>>]
    /\ diag_count = 0

\* a textDocument/publishDiagnostics notification arrives; uri <<>> is a
\* uri that Uri::parse gives Uri::None for
PublishDiagnostics(uri, diagnostics) ==
    /\ diag_count < MaxNotifications
    /\ diag_collections' =
          IF uri = <<>> THEN diag_collections
          ELSE on_notification(diag_collections, DiagPaths, uri[1], diagnostics)
    /\ diag_last' = [uri |-> uri, diagnostics |-> diagnostics]
    /\ diag_count' = diag_count + 1
    /\ UNCHANGED diagRest

DiagNext ==
    \E uri \in {<<>>} \cup {<<p>> : p \in DiagPaths},
       diagnostics \in DiagnosticLists(MaxDiagnostics) :
          PublishDiagnostics(uri, diagnostics)

(***************************************************************************)
(* Part 13.  The builtin commands that take strings from the editor's      *)
(* string pool (src/command/builtin.rs).  A command is given the outcomes  *)
(* of the calls it makes (its arguments parse or not, a file opens or not) *)
(* and leaves its result and the pool.                                     *)
(***************************************************************************)
MaxPoolCommands == 3

\* the pool: the strings it holds, and the strings made for it so far
StringPool(free, made) == [free |-> free, made |-> made]

\* StringPool::acquire and acquire_with: a pooled string, or a new one
StringPool_acquire(pool) ==
    IF pool.free > 0 THEN StringPool(pool.free - 1, pool.made)
    ELSE StringPool(0, pool.made + 1)

\* StringPool::release: the string goes back to the pool
StringPool_release(pool) == StringPool(pool.free + 1, pool.made)

\* what a command left: its result and the pool
Ran(res, pool) == [res |-> res, pool |-> pool]

\* the func of `try` (builtin.rs 158-189)
try_strings(given, pool) ==
    IF ~given.args_ok THEN Ran("Err", pool)
    ELSE IF given.has_catch
    THEN Ran(IF given.try_ok \/ given.catch_ok THEN "Ok" ELSE "Err",
             StringPool_release(StringPool_release(
                 StringPool_acquire(StringPool_acquire(pool)))))
    ELSE Ran("Ok", StringPool_release(StringPool_acquire(pool)))

\* the func of `replace-with-text` (builtin.rs 395-426)
replace_with_text_strings(given, pool) ==
    IF ~given.args_ok THEN Ran("Err", pool)
    ELSE IF ~given.has_view THEN Ran("Err", pool)
    ELSE Ran("Ok", StringPool_release(StringPool_acquire(pool)))

\* replace-with-output, `if pipe { .. }` (builtin.rs 469-490): the buffer of
\* the view exists, so the loop runs to its end
Piped(given, pool) ==
    IF given.pipe THEN StringPool_release(StringPool_acquire(pool)) ELSE pool

\* the func of `replace-with-output` (builtin.rs 441-521)
replace_with_output_strings(given, pool) ==
    IF ~given.args_ok THEN Ran("Err", pool)
    ELSE IF ~given.has_view THEN Ran("Err", pool)
    ELSE IF given.view_kept /\ ~given.parse_ok
    THEN Ran("Err", StringPool_acquire(StringPool_acquire(Piped(given, pool))))
    ELSE Ran("Ok", StringPool_release(StringPool_release(
                       StringPool_acquire(StringPool_acquire(Piped(given, pool))))))

\* the func of `source` (builtin.rs 788-825)
source_strings(given, pool) ==
    IF ~given.args_ok THEN Ran("Err", pool)
    ELSE IF ~given.open_ok THEN Ran("Err", pool)
    ELSE IF ~given.read_ok THEN Ran("Err", StringPool_acquire(pool))
    ELSE Ran("Ok", StringPool_release(StringPool_acquire(pool)))

\* the func of `open` (builtin.rs 842-925)
open_strings(given, pool) ==
    IF ~given.args_ok THEN Ran("Err", pool)
    ELSE IF ~given.has_client THEN Ran("Ok", pool)
    ELSE Ran("Ok", StringPool_release(StringPool_acquire(pool)))

\* the func of `lsp-workspace-symbols` (builtin.rs 1784-1807)
lsp_workspace_symbols_strings(given, pool) ==
    IF ~given.args_ok THEN Ran("Err", pool)
    ELSE IF ~given.has_client THEN Ran("Ok", pool)
    ELSE IF ~given.has_view THEN Ran("Err", pool)
    ELSE Ran(IF given.lsp_ok THEN "Ok" ELSE "Err",
             StringPool_release(StringPool_acquire(pool)))

\* the func of `lsp-debug` (builtin.rs 1842-1862)
lsp_debug_strings(given, pool) ==
    IF ~given.args_ok THEN Ran("Err", pool)
    ELSE Ran("Ok", StringPool_release(StringPool_acquire(pool)))

PoolCommands ==
    {"try", "replace-with-text", "replace-with-output", "source", "open",
     "lsp-workspace-symbols", "lsp-debug"}

\* the outcomes a command can be given: those its func asks for
Asked(command) ==
    CASE command = "try" -> {"args_ok", "has_catch", "try_ok", "catch_ok"}
      [] command = "replace-with-text" -> {"args_ok", "has_view"}
      [] command = "replace-with-output" ->
            {"args_ok", "has_view", "pipe", "view_kept", "parse_ok"}
      [] command = "source" -> {"args_ok", "open_ok", "read_ok"}
      [] command = "open" -> {"args_ok", "has_client"}
      [] command = "lsp-workspace-symbols" ->
            {"args_ok", "has_client", "has_view", "lsp_ok"}
      [] OTHER -> {"args_ok"}

PoolGiven(command) ==
    {given \in [args_ok : BOOLEAN, has_catch : BOOLEAN, try_ok : BOOLEAN,
                catch_ok : BOOLEAN, has_view : BOOLEAN, has_client : BOOLEAN,
                pipe : BOOLEAN, view_kept : BOOLEAN, parse_ok : BOOLEAN,
                open_ok : BOOLEAN, read_ok : BOOLEAN, lsp_ok : BOOLEAN] :
        \A f \in DOMAIN given : f \notin Asked(command) => given[f]}

\* the func of the command
pool_command_func(command, given, pool) ==
    CASE command = "try" -> try_strings(given, pool)
      [] command = "replace-with-text" -> replace_with_text_strings(given, pool)
      [] command = "replace-with-output" -> replace_with_output_strings(given, pool)
      [] command = "source" -> source_strings(given, pool)
      [] command = "open" -> open_strings(given, pool)
      [] command = "lsp-workspace-symbols" -> lsp_workspace_symbols_strings(given, pool)
      [] OTHER -> lsp_debug_strings(given, pool)

PoolNoCommand ==
    [command |-> "none", given |-> <<>>, res |-> "none"]

PoolInit ==
    /\ string_pool = StringPool(0, 0)
    /\ pool_last = PoolNoCommand
    /\ pool_count = 0

\* a client runs one of the commands
PoolCommand(command, given) ==
    /\ pool_count < MaxPoolCommands
    /\ \E ran \in {pool_command_func(command, given, string_pool)} :
          /\ string_pool' = ran.pool
          /\ pool_last' = [command |-> command, given |-> given, res |-> ran.res]
    /\ pool_count' = pool_count + 1
    /\ UNCHANGED poolRest

PoolNext ==
    \E command \in PoolCommands :
        \E given \in PoolGiven(command) : PoolCommand(command, given)

(***************************************************************************)
(* Part 14.  The `map` command (src/command/builtin.rs) over the key       *)
(* parser (lib/client_event.rs).  The command line is                      *)
(* `map [-normal] [-insert] <from> <to>` with <from> and <to> written as   *)
(* plain words, so that an argument's token covers its text.               *)
(***************************************************************************)
\* KeyParser::next until the first error or the end of `raw`: the result of
\* parse_all_keys(raw) as parse_and_map reads it
RECURSIVE KeyParser_all(_, _)
KeyParser_all(raw, chars) ==
    IF chars = <<>> THEN [ok |-> TRUE, index |-> 0, error |-> ""]
    ELSE IF parse_key(chars).ok THEN KeyParser_all(raw, parse_key(chars).rest)
    ELSE [ok |-> FALSE, index |-> Len(raw) - Len(parse_key(chars).rest),
          error |-> parse_key(chars).err]

\* KeyMapCollection::parse_and_map: <from> is parsed, then <to>
parse_and_map(from_text, to_text) ==
    IF ~KeyParser_all(from_text, from_text).ok
    THEN [kind |-> "From", e |-> KeyParser_all(from_text, from_text)]
    ELSE IF ~KeyParser_all(to_text, to_text).ok
    THEN [kind |-> "To", e |-> KeyParser_all(to_text, to_text)]
    ELSE [kind |-> "Ok", e |-> KeyParser_all(to_text, to_text)]

CommandToken(from, to) == [from |-> from, to |-> to]

\* a value of the command line: its text and the token it was read from
CommandValue(text, token) == [text |-> text, token |-> token]

\* `token.chars().next().map(char::len_utf8).unwrap_or(0)` for
\* `token = &text[index..]`, the chars being ASCII
FirstCharLen(text, index) == IF index < Len(text) THEN 1 ELSE 0

MapOut(res, which, token) == [run |-> TRUE, res |-> res, which |-> which, token |-> token]

\* the func of `map`: flags is the set of mode flags given
map_func(flags, from, to) ==
    IF flags = {} THEN MapOut(CmdOk("None"), "", CommandToken(0, 0))
    ELSE IF parse_and_map(from.text, to.text).kind = "From"
    THEN MapOut(CmdErr("KeyParseError"), "From",
                CommandToken(to.token.from + parse_and_map(from.text, to.text).e.index,
                             to.token.from + parse_and_map(from.text, to.text).e.index
                                + FirstCharLen(from.text,
                                               parse_and_map(from.text, to.text).e.index)))
    ELSE IF parse_and_map(from.text, to.text).kind = "To"
    THEN MapOut(CmdErr("KeyParseError"), "To",
                CommandToken(to.token.from + parse_and_map(from.text, to.text).e.index,
                             to.token.from + parse_and_map(from.text, to.text).e.index
                                + FirstCharLen(to.text,
                                               parse_and_map(from.text, to.text).e.index)))
    ELSE MapOut(CmdOk("None"), "", CommandToken(0, 0))

\* "i", "<e", ">i", "i<x>", "<esc>"
MapTexts == {<<105>>, <<60, 101>>, <<62, 105>>, <<105, 60, 120, 62>>,
             <<60, 101, 115, 99, 62>>}

MapFlags == SUBSET {"normal", "insert"}

\* where <from> starts in `map <flags> <from> <to>`: after "map " and
\* "-normal " / "-insert "
FromStart(flags) == 4 + 8 * Cardinality(flags)

MapNotRun == [run |-> FALSE, res |-> CmdOk("None"), which |-> "", token |-> CommandToken(0, 0)]

MapInit ==
    /\ map_flags \in MapFlags
    /\ \E from_text \in MapTexts, to_text \in MapTexts :
          /\ map_from = CommandValue(from_text,
                                     CommandToken(FromStart(map_flags),
                                                  FromStart(map_flags) + Len(from_text)))
          /\ map_to = CommandValue(to_text,
                                   CommandToken(FromStart(map_flags) + Len(from_text) + 1,
                                                FromStart(map_flags) + Len(from_text) + 1
                                                    + Len(to_text)))
    /\ map_out = MapNotRun

MapIdle ==
    /\ map_flags = {}
    /\ map_from = CommandValue(<<>>, CommandToken(0, 0))
    /\ map_to = CommandValue(<<>>, CommandToken(0, 0))
    /\ map_out = MapNotRun

\* map <flags> <from> <to>
MapCommand ==
    /\ ~map_out.run
    /\ map_out' = map_func(map_flags, map_from, map_to)
    /\ UNCHANGED <<map_flags, map_from, map_to>>
    /\ UNCHANGED mapRest

MapNext == MapCommand

CodecStart == CodecInit /\ ConnInit /\ HlInit /\ ParseIdle /\ TryIdle /\ ExecInit /\ ModeInit /\ QuitIdle /\ LspInit /\ ReadInit /\ NavInit /\ DiagInit /\ PoolInit /\ MapIdle

SpecCodec == CodecStart /\ [][CodecNext]_vars

ConnStart == ConnInit /\ CodecIdle /\ HlInit /\ ParseIdle /\ TryIdle /\ ExecInit /\ ModeInit /\ QuitIdle /\ LspInit /\ ReadInit /\ NavInit /\ DiagInit /\ PoolInit /\ MapIdle

SpecConn == ConnStart /\ [][ConnNext]_vars

SpecQuit == ConnStart /\ [][QuitNext]_vars

\* every wait of the registry reports each stream that has bytes to read, so a
\* handle that stays ready gets its turn (under FairNext a turn of h is a
\* ServeReady(h) step)
SpecFair ==
    /\ ConnStart
    /\ [][FairNext]_vars
    /\ \A h \in 0..(MaxStreams - 1) : WF_turns(Turn(h))

HlStart == HlInit /\ CodecIdle /\ ConnInit /\ ParseIdle /\ TryIdle /\ ExecInit /\ ModeInit /\ QuitIdle /\ LspInit /\ ReadInit /\ NavInit /\ DiagInit /\ PoolInit /\ MapIdle

SpecHl == HlStart /\ [][HlNext]_vars

ParseStart == ParseInit /\ CodecIdle /\ ConnInit /\ HlInit /\ TryIdle /\ ExecInit /\ ModeInit /\ QuitIdle /\ LspInit /\ ReadInit /\ NavInit /\ DiagInit /\ PoolInit /\ MapIdle

SpecParse == ParseStart /\ [][ParseNext]_vars

TryStart == TryInit /\ CodecIdle /\ ConnInit /\ HlInit /\ ParseIdle /\ ExecInit /\ ModeInit /\ QuitIdle /\ LspInit /\ ReadInit /\ NavInit /\ DiagInit /\ PoolInit /\ MapIdle

SpecTry == TryStart /\ [][TryNext]_vars

ExecStart == ExecInit /\ CodecIdle /\ ConnInit /\ HlInit /\ ParseIdle /\ TryIdle /\ ModeInit /\ QuitIdle /\ LspInit /\ ReadInit /\ NavInit /\ DiagInit /\ PoolInit /\ MapIdle

SpecExec == ExecStart /\ [][ExecNext]_vars

ModeStart ==
    ModeInit /\ CodecIdle /\ ConnInit /\ HlInit /\ ParseIdle /\ TryIdle /\ ExecInit /\ QuitIdle /\ LspInit /\ ReadInit /\ NavInit /\ DiagInit /\ PoolInit /\ MapIdle

SpecMode == ModeStart /\ [][ModeNext]_vars

QuitStart ==
    QuitInit /\ CodecIdle /\ ConnInit /\ HlInit /\ ParseIdle /\ TryIdle /\ ExecInit /\ ModeInit /\ LspInit /\ ReadInit /\ NavInit /\ DiagInit /\ PoolInit /\ MapIdle

SpecQuitCmd == QuitStart /\ [][QuitCmdNext]_vars

LspIdleStart ==
    LspInit /\ CodecIdle /\ ConnInit /\ HlInit /\ ParseIdle /\ TryIdle /\ ExecInit /\ ModeInit
    /\ QuitIdle /\ ReadInit /\ NavInit /\ DiagInit /\ PoolInit /\ MapIdle

SpecLsp == LspIdleStart /\ [][LspNext]_vars

ReadStart ==
    ReadInit /\ CodecIdle /\ ConnInit /\ HlInit /\ ParseIdle /\ TryIdle /\ ExecInit /\ ModeInit
    /\ QuitIdle /\ LspInit /\ NavInit /\ DiagInit /\ PoolInit /\ MapIdle

SpecRead == ReadStart /\ [][ReadNext]_vars

AcceptStart ==
    AcceptInit /\ CodecIdle /\ HlInit /\ ParseIdle /\ TryIdle /\ ExecInit /\ ModeInit
    /\ QuitIdle /\ LspInit /\ ReadInit /\ NavInit /\ DiagInit /\ PoolInit /\ MapIdle

SpecAccept == AcceptStart /\ [][AcceptNext]_vars

NavStart ==
    NavInit /\ CodecIdle /\ ConnInit /\ HlInit /\ ParseIdle /\ TryIdle /\ ExecInit /\ ModeInit
    /\ QuitIdle /\ LspInit /\ ReadInit /\ DiagInit /\ PoolInit /\ MapIdle

SpecNav == NavStart /\ [][NavNext]_vars

DiagStart ==
    DiagInit /\ CodecIdle /\ ConnInit /\ HlInit /\ ParseIdle /\ TryIdle /\ ExecInit /\ ModeInit
    /\ QuitIdle /\ LspInit /\ ReadInit /\ NavInit /\ PoolInit /\ MapIdle

SpecDiag == DiagStart /\ [][DiagNext]_vars

PoolStart ==
    PoolInit /\ CodecIdle /\ ConnInit /\ HlInit /\ ParseIdle /\ TryIdle /\ ExecInit /\ ModeInit
    /\ QuitIdle /\ LspInit /\ ReadInit /\ NavInit /\ DiagInit /\ MapIdle

SpecPool == PoolStart /\ [][PoolNext]_vars

MapStart ==
    MapInit /\ CodecIdle /\ ConnInit /\ HlInit /\ ParseIdle /\ TryIdle /\ ExecInit /\ ModeInit
    /\ QuitIdle /\ LspInit /\ ReadInit /\ NavInit /\ DiagInit /\ PoolInit

SpecMap == MapStart /\ [][MapNext]_vars


(***************************************************************************)
(* Properties of the codec (checked under SpecCodec).                      *)
(***************************************************************************)

\* C8: for every Key, deserialize_key applied to the bytes serialize_key wrote
\* returns that Key, leaving the bytes that follow it unread, and serialize_key
\* writes at least one byte.
C8_KeyWireRoundTrip ==
    /\ key_bytes.set => Len(key_bytes.data) > Len(key_trail)
    /\ key_de.run => key_de.ok /\ key_de.val = key /\ key_de.rest = key_trail

\* a Ctrl key with a non-alphanumeric char, as in tests::key_serialization, went
\* through serialize_key and deserialize_key with further bytes behind it
C8_Witness ==
    /\ key = MkKey("Ctrl", 36)
    /\ key_trail = <<17, 2>>
    /\ key_de.run
    /\ key_de.val = key
    /\ Len(key_bytes.data) = 7

\* the keys whose Display text parse_key accepts
InParseDomain(k) ==
    CASE k.kind = "None" -> FALSE
      [] k.kind = "F" -> k.arg <= 99
      [] k.kind = "Char" -> is_ascii(k.arg)
      [] k.kind \in {"Ctrl", "Alt"} -> is_ascii_alphanumeric(k.arg)
      [] OTHER -> TRUE

\* C9 (as written): for every Key whose Display text is non-empty, parse_key
\* applied to that text returns the same Key.
C9_Original ==
    key_parsed.run /\ key_text.data # <<>> => key_parsed.ok /\ key_parsed.val = key

\* C9 (amended): parse_key applied to the Display text of a Key returns the same
\* Key, consuming the whole text, exactly when the Key is a named key, Esc,
\* F(n) with n <= 99, Char(c) with c ASCII, or Ctrl(c) / Alt(c) with c ASCII
\* alphanumeric; for every other Key parse_key returns an error.
C9_KeyTextRoundTrip ==
    key_parsed.run =>
        IF InParseDomain(key)
        THEN key_parsed.ok /\ key_parsed.val = key /\ key_parsed.rest = <<>>
        ELSE ~key_parsed.ok

\* Char('<'), whose Display text is "<less>", was displayed and parsed back
C9_Witness ==
    /\ key = MkKey("Char", 60)
    /\ key_text.set
    /\ Len(key_text.data) = 6
    /\ key_parsed.run
    /\ key_parsed.ok
    /\ key_parsed.val = key

\* C10: for every ClientEvent (Key, Resize, Command, with or without a target),
\* ClientEvent::deserialize applied to the bytes ClientEvent::serialize wrote
\* returns an equal event and leaves exactly the bytes that follow it.
C10_EventRoundTrip ==
    event_de.run =>
        /\ event_de.ok
        /\ event_de.val = event
        /\ event_de.rest = event_trail
        /\ Len(event_bytes.data) > Len(event_trail)

\* a Command event with a target and further bytes behind it was serialized and
\* deserialized
C10_Witness ==
    /\ event.kind = "Command"
    /\ event.target = SomeTarget(300)
    /\ event.text = <<113, 117, 105, 116>>
    /\ event_trail = <<17, 2>>
    /\ event_de.run
    /\ event_de.val = event

(***************************************************************************)
(* Properties of the connection manager (checked under SpecConn).          *)
(***************************************************************************)

\* the handles whose slot holds stream s
HandlesOf(s) == {h \in 0..(Len(connections) - 1) : connections[h + 1] = s}

\* C1 (as written): whatever the byte positions at which the stream of a
\* client's serialized events was split into reads, once the server has read
\* all of it (or has closed the connection) the events given to the callback
\* are those one read of the whole stream gives it.  Connections that failed
\* for another reason (a read or write error, bytes that are no event) are set
\* aside.
C1_ResumableDecoding ==
    \A s \in Streams :
        (/\ stream[s].accepted
         /\ ~stream[s].malformed
         /\ stream[s].fault \notin {"read", "write"}
         /\ (stream[s].wire = <<>> \/ stream[s].shutdown))
        => stream[s].dispatched = receive_loop(serialize_all(stream[s].sent), "Quit").events

\* C3: a connection on which nothing went wrong (no read error, no bytes that
\* are no event, no quit, no disconnect, no failed write) is never shut down,
\* keeps its slot and keeps its registration, whatever happens on the others.
C3_Isolation ==
    \A s \in Streams :
        stream[s].accepted /\ stream[s].fault = "none" =>
            /\ ~stream[s].shutdown
            /\ \E h \in HandlesOf(s) : <<h, s>> \in registry

\* one client sent bytes that are no event and was closed for it, while the
\* other, served before and after, is still open and registered
C3_Witness ==
    \E s, t \in Streams :
        /\ s # t
        /\ stream[s].fault = "decode"
        /\ stream[s].malformed
        /\ stream[s].shutdown
        /\ HandlesOf(s) = {}
        /\ stream[t].accepted
        /\ stream[t].fault = "none"
        /\ ~stream[t].shutdown
        /\ stream[t].dispatched # <<>>
        /\ \E h \in HandlesOf(t) : <<h, t>> \in registry

\* C4: no stream is held by two slots, and an occupied slot never changes to
\* another stream: it keeps its stream until it is emptied, so accept_connection
\* never hands out the handle of an occupied slot, closed or not.
C4_SlotStable ==
    /\ [](\A i, j \in 1..Len(connections) :
            connections[i] # 0 /\ connections[i] = connections[j] => i = j)
    /\ [][\A i \in 1..Len(connections) :
            connections[i] # 0 => connections'[i] \in {0, connections[i]}]_vars

\* accept_connection ran while a closed connection was still in its slot, and
\* gave the new client another slot
C4_Witness ==
    /\ last_accept.pending
    /\ last_accept.handle = 1
    /\ Len(connections) = 2
    /\ connections[1] # 0
    /\ stream[connections[1]].shutdown
    /\ connections[2] # 0
    /\ connections[2] # connections[1]

\* C6: no event is dispatched after a quit of the same connection, and the
\* connection whose quit was dispatched is closed, receive_keys having returned
\* Quit.
C6_QuitStopsBatch ==
    \A s \in Streams :
        LET d == stream[s].dispatched
        IN  /\ \A i \in 1..Len(d) : IsQuit(d[i]) => i = Len(d)
            /\ d # <<>> /\ IsQuit(d[Len(d)]) =>
                    stream[s].shutdown /\ stream[s].fault = "quit"

\* a quit and an Esc behind it were read in one batch: the quit was dispatched,
\* the Esc was not, and the connection is closed
C6_Witness ==
    \E s \in Streams :
        /\ stream[s].sent = <<EventCommand(NoTarget, QuitText),
                              EventKey(NoTarget, MkKey("Esc", 0))>>
        /\ stream[s].wire = <<>>
        /\ stream[s].dispatched = <<EventCommand(NoTarget, QuitText)>>
        /\ stream[s].shutdown
        /\ stream[s].fault = "quit"

\* C7: the events dispatched for a connection are, in order, the first events
\* its client sent: none is dispatched before one sent earlier.
C7_Fifo ==
    \A s \in Streams : IsPrefix(stream[s].dispatched, stream[s].sent)

\* two different keys of one client were both dispatched, in the order sent
C7_Witness ==
    \E s \in Streams :
        /\ stream[s].sent = <<EventKey(NoTarget, MkKey("Char", 97)),
                              EventKey(NoTarget, MkKey("Esc", 0))>>
        /\ stream[s].dispatched = stream[s].sent
        /\ ~stream[s].shutdown

(***************************************************************************)
(* Properties of the highlighter (checked under SpecHl).                   *)
(***************************************************************************)

\* C2 (as written): after any sequence of insertions and deletions, each
\* followed by on_insert or on_delete with its range, the overlay's states and
\* tokens are those highligh_all gives for the buffer as it now is.
C2_HighlightConvergence ==
    syntax_handle # 0 =>
        lines = highligh_all(SyntaxOf(syntax_handle), buffer, <<>>)

\* C25: when the loop of fix_highlight_from stopped at a line because the
\* incoming state and the line's stored state were both Finished, that line and
\* every later line already hold the tokens and the state that parsing them
\* with the carries now stored gives.
C25_EarlyStopSound ==
    (syntax_handle # 0 /\ fix_stopped # NoStop) =>
        \A i \in fix_stopped..(Len(lines) - 1) :
            i < Len(buffer) =>
                lines[i + 1] = parse_line(SyntaxOf(syntax_handle), buffer[i + 1],
                                          previous_line_kind_at(lines, i), <<>>)

\* C5 (as written): after every Buffer, Path, Insert or Delete operation the
\* overlay has as many lines as the buffer.
C5_Original ==
    ops > 0 => Len(lines) = Len(buffer)

\* C5 (amended): while the client has a syntax (syntax_handle is Some), the
\* overlay has as many lines as the buffer after every Buffer, Path, Insert or
\* Delete operation, whatever their order.
C5_LineCount ==
    syntax_handle # 0 => Len(lines) = Len(buffer)

\* with a syntax selected, an Insert grew the buffer to three lines and on_insert
\* grew the overlay with it
C5_Witness ==
    /\ syntax_handle # 0
    /\ last_op = "Insert"
    /\ ops >= 2
    /\ Len(buffer) = 3
    /\ Len(lines) = 3

(***************************************************************************)
(* Further properties of the codec (checked under SpecCodec).              *)
(***************************************************************************)

\* the Key variants in the order the data model lists them (spec section 3)
DeclaredKeyOrder == <<"None", "Backspace", "Enter", "Left", "Right", "Up", "Down",
                      "Home", "End", "PageUp", "PageDown", "Tab", "Delete", "Esc",
                      "F", "Char", "Ctrl", "Alt">>

DeclaredPosition(kind) ==
    (CHOOSE i \in 1..Len(DeclaredKeyOrder) : DeclaredKeyOrder[i] = kind) - 1

\* the wire format's discriminants: the unit keys None..Delete 0..12, then
\* F, Char, Ctrl, Alt, and Esc last
WireKeyOrder == <<"None", "Backspace", "Enter", "Left", "Right", "Up", "Down",
                  "Home", "End", "PageUp", "PageDown", "Tab", "Delete",
                  "F", "Char", "Ctrl", "Alt", "Esc">>

WirePosition(kind) ==
    (CHOOSE i \in 1..Len(WireKeyOrder) : WireKeyOrder[i] = kind) - 1

\* C11 (as written): the discriminant serialize_key writes for a Key is the
\* position of its variant in the order the data model declares the variants.
C11_Original ==
    key_bytes.set => key_bytes.data[1] = DeclaredPosition(key.kind)

\* C11 (amended): serialize_key writes the discriminants None = 0, Backspace = 1,
\* Enter = 2, Left = 3, Right = 4, Up = 5, Down = 6, Home = 7, End = 8,
\* PageUp = 9, PageDown = 10, Tab = 11, Delete = 12, F = 13, Char = 14,
\* Ctrl = 15, Alt = 16, Esc = 17, and deserialize_key maps each discriminant
\* back to that variant.
C11_Discriminants ==
    /\ key_bytes.set => key_bytes.data[1] = WirePosition(key.kind)
    /\ key_de.run => key_de.ok /\ key_de.val.kind = WireKeyOrder[key_bytes.data[1] + 1]

\* Esc, which the data model lists before F, went over the wire as 17
C11_Witness ==
    /\ key = MkKey("Esc", 0)
    /\ key_bytes.set
    /\ key_bytes.data[1] = 17
    /\ key_de.run
    /\ key_de.val = key


(***************************************************************************)
(* Properties of Syntax::parse_line (checked under SpecParse).             *)
(***************************************************************************)
\* whether token k of the parsed line is the carry token of the incoming state
IsCarryToken(k) ==
    /\ k = 1
    /\ ~p_previous.fin
    /\ Pattern_matches_with_state(ParseSyntaxes[p_syntax][p_previous.rule + 1].pattern,
                                  p_line, p_previous.pstate).kind # "Err"

\* what each rule answers at the scan cursor `from`, past the whitespace
RuleAnswers(from) ==
    LET rules == ParseSyntaxes[p_syntax]
        slice == Drop(p_line, from + whitespace_count(Drop(p_line, from)))
    IN  [i \in 1..Len(rules) |-> Pattern_matches(rules[i].pattern, slice)]

\* C12: at a scan cursor where several rules match and the rule loop runs to
\* its end (no rule answers Pending), the token gets the kind of the rule with
\* the longest match, the first registered one among those of that length,
\* and ends at cursor + whitespace + that length.
C12_LongestFirstWins ==
    p_out.run =>
        \A k \in 1..Len(p_out.tokens) :
            LET from == p_out.tokens[k].from
                answers == RuleAnswers(from)
                oks == {i \in DOMAIN answers : answers[i].kind = "Ok" /\ answers[i].len > 0}
            IN  (/\ ~IsCarryToken(k)
                 /\ oks # {}
                 /\ \A i \in DOMAIN answers : answers[i].kind # "Pending")
                => \E best \in oks :
                      /\ \A i \in oks : answers[i].len <= answers[best].len
                      /\ \A i \in oks : answers[i].len = answers[best].len => best <= i
                      /\ p_out.tokens[k].kind = ParseSyntaxes[p_syntax][best].kind
                      /\ p_out.tokens[k].to =
                            Min(Len(p_line), from + whitespace_count(Drop(p_line, from))
                                             + answers[best].len)

\* on "aaa" the later, longer rule takes "aa", then two rules tie on "a"
C12_Witness ==
    /\ p_out.run
    /\ p_syntax = 1
    /\ p_previous.fin
    /\ p_line = <<"a", "a", "a">>
    /\ p_out.tokens = <<Token("Symbol", 0, 2), Token("Keyword", 2, 3)>>

\* the answer of the carried rule's pattern on the line
CarryAnswer ==
    Pattern_matches_with_state(ParseSyntaxes[p_syntax][p_previous.rule + 1].pattern,
                               p_line, p_previous.pstate)

\* C13: a line parsed with incoming state Unfinished(i, s): on Ok(len) it
\* starts with one token of rule i's kind over 0..len and the next token, if
\* the line goes on, starts at len; on Pending it gets exactly one token of
\* rule i's kind over 0..line_len and leaves Unfinished(i, s'); on Err it
\* is parsed as a line with incoming state Finished, from byte 0.
C13_MultiLineCarry ==
    (p_out.run /\ ~p_previous.fin) =>
        LET rules == ParseSyntaxes[p_syntax]
            kind == rules[p_previous.rule + 1].kind
            m == CarryAnswer
        IN  CASE m.kind = "Ok" ->
                    /\ p_out.tokens # <<>>
                    /\ p_out.tokens[1] = Token(kind, 0, m.len)
                    /\ \A k \in 2..Len(p_out.tokens) : p_out.tokens[k].kind # kind
                                                        \/ p_out.tokens[k].from >= m.len
                    /\ IF m.len < Len(p_line)
                       THEN Len(p_out.tokens) >= 2 /\ p_out.tokens[2].from = m.len
                       ELSE p_out.tokens = <<Token(kind, 0, m.len)>> /\ p_out.state = Finished
                    /\ LET rest == scan_line(rules, Drop(p_line, m.len), 0, <<>>)
                       IN  /\ p_out.state = rest.state
                           /\ Len(p_out.tokens) = 1 + Len(rest.tokens)
                           /\ \A k \in 1..Len(rest.tokens) :
                                p_out.tokens[k + 1] =
                                    Token(rest.tokens[k].kind, rest.tokens[k].from + m.len,
                                          rest.tokens[k].to + m.len)
              [] m.kind = "Pending" ->
                    /\ p_out.tokens = <<Token(kind, 0, Len(p_line))>>
                    /\ p_out.state = Unfinished(p_previous.rule, m.state)
              [] OTHER ->
                    LET fresh == parse_line(rules, p_line, Finished, <<>>)
                    IN  /\ p_out.state = fresh.state
                        /\ p_out.tokens = fresh.tokens
                        /\ p_out.tokens # <<>> => p_out.tokens[1].from = 0

\* a carried block closes inside the line and scanning goes on behind it
C13_Witness ==
    /\ p_out.run
    /\ p_syntax = 3
    /\ p_previous = Unfinished(0, "body")
    /\ p_line = <<"a", "c", "c">>
    /\ p_out.tokens = <<Token("String", 0, 2), Token("Keyword", 2, 3)>>
    /\ p_out.state = Finished


\* the tokens that hold byte b of the line
Holding(b) == {k \in 1..Len(p_out.tokens) :
                  p_out.tokens[k].from <= b /\ b < p_out.tokens[k].to}

\* C40: for every syntax, line and incoming carry, the tokens parse_line
\* emits are in increasing order, non-overlapping and contiguous, the first
\* starting at byte 0 and the last ending at the line length, so every byte
\* of the line lies in exactly one token and the binary search of
\* find_token_kind_at finds it.
C40_TokensPartitionLine ==
    p_out.run =>
        /\ p_line # <<>> => p_out.tokens # <<>>
        /\ p_out.tokens # <<>> =>
              /\ p_out.tokens[1].from = 0
              /\ p_out.tokens[Len(p_out.tokens)].to = Len(p_line)
        /\ \A k \in 1..Len(p_out.tokens) :
              /\ p_out.tokens[k].from <= p_out.tokens[k].to
              /\ k < Len(p_out.tokens) => p_out.tokens[k].to = p_out.tokens[k + 1].from
        /\ \A b \in 0..(Len(p_line) - 1) :
              /\ Cardinality(Holding(b)) = 1
              /\ \A k \in Holding(b) :
                    /\ binary_search_by(p_out.tokens, b, 0, Len(p_out.tokens)) = k - 1
                    /\ find_token_kind_at(<<HighlightedLine(p_out.state, p_out.tokens)>>,
                                          0, b) = p_out.tokens[k].kind

\* a carried block closes, whitespace and a keyword follow: three bytes in
\* two tokens, the second holding the whitespace it skipped
C40_Witness ==
    /\ p_out.run
    /\ ~p_previous.fin
    /\ Len(p_line) = 3
    /\ Len(p_out.tokens) = 2
    /\ p_out.tokens[2].from < 2
    /\ is_whitespace(p_line[p_out.tokens[2].from + 1])
    /\ find_token_kind_at(<<HighlightedLine(p_out.state, p_out.tokens)>>, 0, 2)
            = p_out.tokens[2].kind
    /\ p_out.tokens[1].kind # p_out.tokens[2].kind


(***************************************************************************)
(* Properties of the `try` command (checked under SpecTry).                *)
(***************************************************************************)
\* the command line reads try { ... } or try { ... } catch { ... }
TryWellFormed ==
    /\ ~t_bang
    /\ Len(t_values) \in {1, 3}
    /\ Len(t_values) = 3 => t_values[2].word = "catch"

\* whether a block raises an error: a "fail" with only "ok" before it
Raises(commands) ==
    \E i \in 1..Len(commands) :
        commands[i] = "fail" /\ \A j \in 1..(i - 1) : commands[j] = "ok"

\* C14 as stated: no error of the try block or of the catch block reaches the
\* caller of try, and the catch block is evaluated exactly when the try block
\* raised an error.
C14_Original ==
    (t_out.run /\ TryWellFormed) =>
        /\ t_out.res.kind = "Ok"
        /\ Len(t_values) = 3 =>
                (t_out.calls = <<"try", "catch">> <=> Raises(t_values[1].commands))

\* C14 amended: an error of the try block never reaches the caller of try;
\* the catch block is evaluated exactly when the try block raised an error;
\* try returns an error exactly when the catch block was evaluated and raised
\* one, and without a catch block a failed try returns Ok(None).
C14_TryIsolates ==
    (t_out.run /\ TryWellFormed) =>
        LET tried == Raises(t_values[1].commands)
            caught == Len(t_values) = 3 /\ tried
        IN  /\ t_out.calls = IF caught THEN <<"try", "catch">> ELSE <<"try">>
            /\ t_out.res.kind = "Err" <=> (caught /\ Raises(t_values[3].commands))
            /\ t_out.res.kind = "Err" => t_out.res.err = "EvalCommandError"
            /\ (tried /\ ~caught) => t_out.res = CmdOk("None")
            /\ \A k \in 1..Len(t_out.trace) :
                    t_out.trace[k].block = "catch" => caught

\* the try block fails, the catch block runs one command and fails too
C14_Witness ==
    /\ t_out.run
    /\ ~t_bang
    /\ t_values = <<BlockValue(<<"ok", "fail">>), Word("catch"), BlockValue(<<"ok", "fail">>)>>
    /\ t_out.res = CmdErr("EvalCommandError")
    /\ t_out.calls = <<"try", "catch">>
    /\ Len(t_out.trace) = 4


(***************************************************************************)
(* Properties of the `execute-keys` command (checked under SpecExec).      *)
(***************************************************************************)
\* C15: when client A runs execute-keys -client=<B> <keys> and the command
\* succeeds, the keys run on behalf of B: B's buffer gets the text the keys
\* insert, B gets one Insert operation per inserted char and nothing else,
\* and the buffer and the operations of every other client (A among them)
\* stay as they were.
C15_OnBehalfOfTarget ==
    [][(/\ exec_count' = exec_count + 1
        /\ exec_last'.flag.set
        /\ exec_last'.client \in ClientHandles
        /\ exec_last'.res.kind = "Ok")
       => LET b == exec_last'.flag.text[1] - 48
              new == SubSeq(editor'.ops[b], Len(editor.ops[b]) + 1, Len(editor'.ops[b]))
          IN  /\ b \in ClientHandles
              /\ \A c \in ClientHandles \ {b} :
                    /\ editor'.buffers[c] = editor.buffers[c]
                    /\ editor'.ops[c] = editor.ops[c]
              /\ IsPrefix(editor.ops[b], editor'.ops[b])
              /\ IsPrefix(editor.buffers[b], editor'.buffers[b])
              /\ Len(editor'.buffers[b]) = Len(editor.buffers[b]) + Len(new)
              /\ \A k \in 1..Len(new) :
                    /\ new[k].op = "Insert"
                    /\ new[k].text = <<editor'.buffers[b][Len(editor.buffers[b]) + k]>>
              /\ exec_last'.keys \in {<<105, 104, 60, 101, 115, 99, 62>>, <<105, 104>>}
                    => Len(new) = 1 /\ new[1].text = <<104>>
      ]_vars

\* client 1 ran execute-keys -client=2 ih<esc>: client 2 has the text and the
\* Insert operation, client 1 has neither
C15_Witness ==
    /\ exec_last.run
    /\ exec_last.client = 1
    /\ exec_last.flag = Flag(<<50>>)
    /\ exec_last.keys = <<105, 104, 60, 101, 115, 99, 62>>
    /\ exec_last.res = CmdOk("None")
    /\ editor.buffers = (1 :> <<>> @@ 2 :> <<104>>)
    /\ editor.ops[1] = <<>>
    /\ editor.ops[2] = <<[op |-> "Insert", position |-> 0, text |-> <<104>>]>>


(***************************************************************************)
(* Properties of command mode (checked under SpecMode).                    *)
(***************************************************************************)
\* a step that handles Esc in a mode that is not Normal
EscHandled ==
    /\ mode_keys' = mode_keys + 1
    /\ mode_last'.key = MkKey("Esc", 0)
    /\ editor_mode # "Normal"

C20_SendOrClose ==
    /\ [](\A h \in 0..(Len(connections) - 1), bytes \in {<<>>, OperationBytes},
             ok \in BOOLEAN :
            LET conn == connections[h + 1]
                r == send_serialized_operations(h, bytes, ok)
            IN  /\ (bytes = <<>> \/ conn = 0) =>
                        r.writes = <<>> /\ r.closing = {} /\ ~r.failed
                /\ (bytes # <<>> /\ conn # 0 /\ ok) =>
                        r.writes = <<[to |-> conn, bytes |-> bytes]>> /\ r.closing = {}
                /\ (bytes # <<>> /\ conn # 0 /\ ~ok) =>
                        r.writes = <<>> /\ r.failed /\ r.closing = {h})
    /\ [][\A s \in Streams :
            (stream[s].fault = "none" /\ stream'[s].fault = "write") =>
                /\ stream'[s].shutdown
                /\ \E h \in 0..(Len(connections) - 1) :
                        /\ connections[h + 1] = s
                        /\ closed_connection_indexes' = Append(closed_connection_indexes, h)
                /\ connections' = connections
                /\ registry' = registry
                /\ \A t \in Streams \ {s} : stream'[t] = stream[t]
         ]_vars

\* a write to one client failed: it is shut down and queued, still in its slot,
\* and the other client is untouched
C20_Witness ==
    \E s, t \in Streams :
        /\ s # t
        /\ stream[s].fault = "write"
        /\ stream[s].shutdown
        /\ \E h \in 0..(Len(connections) - 1) :
                connections[h + 1] = s /\ closed_connection_indexes = <<h>>
        /\ stream[t].accepted /\ ~stream[t].shutdown /\ stream[t].fault = "none"

C18_TeardownReleases ==
    quit_all =>
        /\ \A s \in Streams : stream[s].accepted => stream[s].shutdown
        /\ registry = {}
        /\ \A i \in 1..Len(connections) : connections[i] = 0


C21_MalformedClosesOnlyThat ==
    \A s \in Streams :
        stream[s].fault = "decode" =>
            /\ stream[s].shutdown
            /\ \/ \E h \in HandlesOf(s) : h \in Range(closed_connection_indexes)
               \/ /\ HandlesOf(s) = {}
                  /\ \A h \in 0..(MaxStreams - 1) : <<h, s>> \notin registry
            /\ \A t \in Streams \ {s} :
                    stream[t].shutdown => stream[t].fault # "none"

\* a client's first event was dispatched, then its bytes with an unknown
\* discriminant were read: its connection was closed and unregistered, and the
\* other client's connection is open, registered and was served afterwards
C21_Witness ==
    \E s, t \in Streams :
        /\ s # t
        /\ stream[s].malformed
        /\ stream[s].fault = "decode"
        /\ Len(stream[s].dispatched) = 1
        /\ stream[s].shutdown
        /\ HandlesOf(s) = {}
        /\ \A h \in 0..(MaxStreams - 1) : <<h, s>> \notin registry
        /\ closed_connection_indexes = <<>>
        /\ ~stream[t].shutdown
        /\ Len(stream[t].dispatched) = 1
        /\ \E h \in HandlesOf(t) : <<h, t>> \in registry
        /\ read_buf_users = Streams

\* C22: the tokens and the state parse_line leaves depend only on the syntax,
\* the line and the incoming state: after a first call on a vector that held
\* anything, and after a second call on the vector the first one filled, they
\* are those of a call on an empty vector.
C22_TokenizerIdempotence ==
    p_out.run =>
        LET fresh == parse_line(ParseSyntaxes[p_syntax], p_line, p_previous, <<>>)
        IN  /\ p_out.tokens = fresh.tokens
            /\ p_out.state = fresh.state

\* a line parsed twice on a vector that held two stale tokens
C22_Witness ==
    /\ p_out.again
    /\ p_out.held = <<Token("Comment", 0, 2), Token("Keyword", 2, 3)>>
    /\ p_syntax = 2
    /\ p_previous = Unfinished(2, "body")
    /\ p_line = <<"c", "a", "o">>
    /\ p_out.tokens = <<Token("Comment", 0, 1), Token("Keyword", 1, 2), Token("Comment", 2, 3)>>
    /\ p_out.state = Unfinished(2, "body")

(***************************************************************************)
(* quit and quit-all (checked under SpecQuitCmd).                          *)
(***************************************************************************)
\* C23: without '!', quit run while exactly one client is connected, and
\* quit-all in every case, return an error and no operation when some buffer
\* has unsaved changes.
C23_NoSilentDiscard ==
    (/\ q_out.run
     /\ ~q_args.bang
     /\ \E b \in 1..Len(q_needs_save) : q_needs_save[b]
     /\ (q_out.cmd = "quit-all" \/ q_clients = 1))
    => q_out.res.kind = "Err" /\ q_out.res.op = "None"

\* quit-all without '!' and without other arguments, one of two buffers
\* unsaved: the command failed for the unsaved changes
C23_Witness ==
    /\ q_out.run
    /\ q_out.cmd = "quit-all"
    /\ q_args = Args(FALSE, 0, 0)
    /\ q_needs_save = <<FALSE, TRUE>>
    /\ q_clients = 2
    /\ q_out.res = CmdErr("UnsavedChanges")

(***************************************************************************)
(* lsp-stop (checked under SpecLsp).                                       *)
(***************************************************************************)
\* C24: lsp-stop stops the lsp server associated with the current buffer and
\* leaves every other running lsp server running: after the command no client
\* that handles the buffer's path is left of those that did, and every client
\* that does not handle it still runs.
C24_StopsOnlyBufferServer ==
    (lsp_last.cmd = "lsp-stop" /\ lsp_last.res.kind = "Ok") =>
        \A h \in LspHandles :
            (/\ lsp_last.before[h] # 0
             /\ ~handles_path(lsp_last.before[h], lsp_last.buffer))
            => lsp_entries[h] = lsp_last.before[h]

(***************************************************************************)
(* C26.  on_delete for a range inside one line.                            *)
(***************************************************************************)
\* a step that is a Delete inside one line of a highlighted buffer
InLineDelete ==
    /\ syntax_handle # 0
    /\ ops' = ops + 1
    /\ last_op' = "Delete"
    /\ last_range'.from.line_index = last_range'.to.line_index

\* the first line the repair after the step left alone
RepairEnd == IF fix_stopped' = NoStop THEN Len(lines') ELSE fix_stopped'

\* C26 as stated: a delete inside one line leaves the overlay's line count
\* unchanged and re-parses only the affected line, the tokens and states of
\* all other overlay lines being left as they were
C26_OnlyAffectedLine ==
    [][InLineDelete =>
        /\ Len(lines') = Len(lines)
        /\ \A i \in 1..Len(lines) :
                i # last_range'.from.line_index + 1 => lines'[i] = lines[i]]_vars

\* C26 amended: a delete inside one line leaves the overlay's line count
\* unchanged, leaves the lines before the affected one as they were, re-parses
\* the affected line from the state of the line before it, re-parses each
\* later line from the new state of the line before it up to the line at
\* which fix_highlight_from stops, and leaves the lines from there on as they
\* were
C26_InLineDelete ==
    [][InLineDelete =>
        LET at == last_range'.from.line_index
        IN  /\ Len(lines') = Len(lines)
            /\ \A i \in 0..(at - 1) : lines'[i + 1] = lines[i + 1]
            /\ lines'[at + 1] = parse_line(SyntaxOf(syntax_handle), buffer'[at + 1],
                                           previous_line_kind_at(lines, at), <<>>)
            /\ \A i \in (at + 1)..(RepairEnd - 1) :
                    lines'[i + 1] = parse_line(SyntaxOf(syntax_handle), buffer'[i + 1],
                                               lines'[i].state, <<>>)
            /\ \A i \in RepairEnd..(Len(lines) - 1) : lines'[i + 1] = lines[i + 1]]_vars

\* a delete inside one line has happened in a highlighted buffer of several
\* lines, and the repair went past the affected line and stopped before the end
C26_Witness ==
    /\ syntax_handle # 0
    /\ last_op = "Delete"
    /\ last_range.from.line_index = last_range.to.line_index
    /\ Len(lines) = MaxLines
    /\ fix_stopped # NoStop
    /\ fix_stopped > last_range.to.line_index + 1

(***************************************************************************)
(* Properties of the read buffer (checked under SpecRead).                 *)
(***************************************************************************)
\* C27: whenever receive_keys or receive_operations has returned (normally,
\* after a Quit, or with an error) the read buffer's len and position are both
\* zero; within one call bytes are only appended to what was read before; and
\* position <= len < capacity holds after every read.
C27_ReadBufferDrained ==
    /\ [](/\ rd_pc \in {"idle", "returned"} => rd_buf.len = 0 /\ rd_buf.position = 0
          /\ rd_buf.position <= rd_buf.len
          /\ rd_buf.len < rd_buf.cap)
    /\ [][(rd_pc = "read" /\ rd_pc' \in {"read", "decode"}) =>
            /\ rd_buf'.len >= rd_buf.len
            /\ rd_buf'.position = rd_buf.position
            /\ Take(rd_buf'.data, rd_buf.len) = Take(rd_buf.data, rd_buf.len)]_vars

\* a second call has returned normally after reads that filled the buffer
\* and made it grow twice
C27_Witness ==
    /\ rd_pc = "returned"
    /\ rd_calls = MaxReadCalls
    /\ rd_result = "Continue"
    /\ rd_buf.cap = 4 * ReadBufCapacity
    /\ rd_buf.len = 0

(***************************************************************************)
(* C28, C29.  Deferred close and slot reuse (checked under SpecConn).      *)
(***************************************************************************)
\* the stream in the slot of handle h
StreamOf(h) == connections[h + 1]

C28_WitnessPending ==
    \E h \in 0..(Len(connections) - 1) :
        /\ closed_connection_indexes = <<h, h>>
        /\ StreamOf(h) # 0

Accepted(s) == ~stream[s].accepted /\ stream'[s].accepted

\* C29: accept_connection stores the new connection in the lowest-index empty
\* slot, or appends a new slot when none is empty, registers the stream under
\* that same index and returns it as the handle, and leaves every other slot
\* as it was; so an index that unregister_closed_connections emptied is taken
\* again by an accept before the table grows.
C29_AcceptLowestEmptySlot ==
    [][\A s \in Streams :
        Accepted(s) =>
            LET empty == {h \in 0..(Len(connections) - 1) : connections[h + 1] = 0}
                handle == last_accept'.handle
            IN  /\ empty # {} =>
                    /\ handle \in empty
                    /\ \A h \in empty : handle <= h
                    /\ Len(connections') = Len(connections)
                /\ empty = {} =>
                    /\ handle = Len(connections)
                    /\ Len(connections') = Len(connections) + 1
                /\ connections'[handle + 1] = s
                /\ registry' = registry \cup {<<handle, s>>}
                /\ \A h \in 0..(Len(connections) - 1) :
                        h # handle => connections'[h + 1] = connections[h + 1]]_vars

\* the first client was closed and unregistered, which emptied slot 0, and the
\* next accept took slot 0 again although slots of a higher index are empty
C29_Witness ==
    /\ unregistered[1] = 1
    /\ connections = <<2, 0, 0>>
    /\ last_accept.handle = 0
    /\ <<0, 2>> \in registry

\* the table had no empty slot and the accept appended one
C29_WitnessAppend ==
    /\ connections = <<1, 2>>
    /\ last_accept.handle = 1
    /\ registry = {<<0, 1>>, <<1, 2>>}

(***************************************************************************)
(* C30.  A pattern that stays Pending during the scan (checked under       *)
(* SpecParse).                                                             *)
(***************************************************************************)
\* what the pattern of rule i (0-based) returns at cursor position `cursor`:
\* it is matched against the line from the cursor on, whitespace skipped
MatchAt(rules, line, cursor, i) ==
    Pattern_matches(rules[i + 1].pattern,
                    Drop(line, cursor + whitespace_count(Drop(line, cursor))))

\* the rules whose pattern returns Pending at the cursor
PendingAt(rules, line, cursor) ==
    {i \in 0..(Len(rules) - 1) : MatchAt(rules, line, cursor, i).kind = "Pending"}

\* whether the first token of the line was pushed for the carried pattern,
\* before the scan
CarryToken ==
    /\ ~p_previous.fin
    /\ Pattern_matches_with_state(ParseSyntaxes[p_syntax][p_previous.rule + 1].pattern,
                                  p_line, p_previous.pstate).kind # "Err"

\* the tokens the scan pushed: all but the carried pattern's
ScanTokens == {k \in 1..Len(p_out.tokens) : ~(k = 1 /\ CarryToken)}

\* C30: during the scan at a cursor position, if a rule's pattern returns
\* Pending, parse_line emits one token of that rule's kind from the cursor to
\* the end of the line, emits no further token for the line, and returns
\* Unfinished(that rule's index, the pending state); the rule is the first in
\* rule order whose pattern returns Pending there.
C30_PendingEndsLine ==
    p_out.run =>
        \A k \in ScanTokens :
            LET rules == ParseSyntaxes[p_syntax]
                cursor == p_out.tokens[k].from
                waiting == PendingAt(rules, p_line, cursor)
            IN  waiting # {} =>
                    \E i \in waiting :
                        /\ \A j \in waiting : i <= j
                        /\ p_out.tokens[k] = Token(rules[i + 1].kind, cursor, Len(p_line))
                        /\ k = Len(p_out.tokens)
                        /\ p_out.state =
                                Unfinished(i, MatchAt(rules, p_line, cursor, i).state)

\* a line was scanned up to a cursor where an earlier rule matches and two
\* later rules stay Pending; the line has a token before that cursor
C30_Witness ==
    /\ p_out.run
    /\ p_previous.fin
    /\ Len(p_out.tokens) = 2
    /\ LET rules == ParseSyntaxes[p_syntax]
           cursor == p_out.tokens[2].from
       IN  /\ Cardinality(PendingAt(rules, p_line, cursor)) = 2
           /\ MatchAt(rules, p_line, cursor, 0).kind = "Ok"
           /\ cursor > 0
    /\ ~p_out.state.fin

(***************************************************************************)
(* C31.  The token the scan emits at a cursor where no pattern stays       *)
(* Pending (checked under SpecParse).                                      *)
(***************************************************************************)
\* the lengths of the matches of the rules at the cursor
OkLens(rules, line, cursor) ==
    {MatchAt(rules, line, cursor, i).len :
        i \in {j \in 0..(Len(rules) - 1) : MatchAt(rules, line, cursor, j).kind = "Ok"}}

\* the length of the longest match at the cursor, 0 when no rule matches
LongestMatch(rules, line, cursor) ==
    LET lens == OkLens(rules, line, cursor) \cup {0}
    IN  CHOOSE n \in lens : \A m \in lens : m <= n

\* the length of the longest run of alphanumerics at the start of `slice`
AlphanumericRun(slice) ==
    LET runs == {n \in 0..Len(slice) : \A i \in 1..n : is_alphanumeric(slice[i])}
    IN  CHOOSE n \in runs : \A m \in runs : m <= n

\* the first char boundary of the line at or after `index`
BoundaryFrom(line, index) ==
    CHOOSE b \in index..Len(line) :
        /\ is_char_boundary(line, b)
        /\ \A j \in index..(b - 1) : ~is_char_boundary(line, j)

\* C31: at a scan cursor where no rule matches (and none stays Pending)
\* parse_line emits one Text token that covers the skipped whitespace followed
\* by the longest run of alphanumerics, or by one byte when there is no such
\* run, clamped to the line's end and extended to the next char boundary; where
\* a rule matches, the token has the winning rule's kind and covers the
\* skipped whitespace and the match.
C31_FallbackTextToken ==
    p_out.run =>
        \A k \in ScanTokens :
            LET rules == ParseSyntaxes[p_syntax]
                token == p_out.tokens[k]
                cursor == token.from
                whitespace_len == whitespace_count(Drop(p_line, cursor))
                slice == Drop(p_line, cursor + whitespace_len)
                longest == LongestMatch(rules, p_line, cursor)
            IN  PendingAt(rules, p_line, cursor) = {} =>
                    IF longest = 0
                    THEN /\ token.kind = "Text"
                         /\ token.to = BoundaryFrom(p_line,
                                Min(Len(p_line),
                                    cursor + whitespace_len + Max(AlphanumericRun(slice), 1)))
                    ELSE /\ token.to = cursor + whitespace_len + longest
                         /\ \E i \in 0..(Len(rules) - 1) :
                                /\ MatchAt(rules, p_line, cursor, i) = MatchOk(longest)
                                /\ token.kind = rules[i + 1].kind

\* a line was scanned whose token is the fallback Text token: it covers a
\* skipped blank and then one byte, which would end it inside a two-byte
\* char, and is extended to the end of that char
C31_Witness ==
    /\ p_out.run
    /\ p_previous.fin
    /\ p_line = <<" ", "M", "K">>
    /\ p_out.tokens = <<Token("Text", 0, 3)>>

\* a fallback Text token that covers a run of two alphanumerics
C31_WitnessRun ==
    /\ p_out.run
    /\ p_previous.fin
    /\ p_line = <<"a", "a", "o">>
    /\ p_out.tokens[1] = Token("Text", 0, 2)

(***************************************************************************)
(* C32.  What receive_keys returns (checked under SpecRead).               *)
(***************************************************************************)
\* the latest call was receive_keys and has returned
KeysReturned == rd_pc = "returned" /\ rd_fn = "receive_keys"

\* the last event the latest call gave to the callback
LastSeen == rd_seen.events[Len(rd_seen.events)]

\* the bytes the latest call read and dispatched no event from
Undecoded == Drop(rd_seen.read, Len(serialize_all(rd_seen.events)))

\* C32 as stated: receive_keys returns Quit whenever the call dispatches no
\* complete event (end of stream, an empty read, an empty slot, or bytes
\* that hold only the beginning of an event), and otherwise returns the
\* callback's result for the last event it dispatched. Calls whose read
\* failed are left aside.
C32_QuitWhenNothingDispatched ==
    (KeysReturned /\ rd_last # "ReadErr") =>
        rd_result = IF rd_seen.events = <<>> THEN "Quit" ELSE callback(LastSeen)

\* What the code does return: an error when the read fails and when
\* the bytes that follow the events it dispatched do not decode as an event
\* (bytes that hold only the beginning of an event among them), unless the
\* callback returned Quit before it got there; otherwise it returns Quit when
\* it dispatched no event (empty slot, end of stream, empty read) and the
\* callback's result for the last event it dispatched when it dispatched
\* some. It dispatches the events of the bytes in order and none after one for
\* which the callback returned Quit.
C32_ReturnOfReceiveKeys ==
    KeysReturned =>
        /\ IsPrefix(serialize_all(rd_seen.events), rd_seen.read)
        /\ \A i \in 1..(Len(rd_seen.events) - 1) : callback(rd_seen.events[i]) # "Quit"
        /\ rd_result =
            CASE rd_last = "ReadErr" -> "Err"
              [] rd_last # "ReadErr" /\ rd_seen.events # <<>> /\ callback(LastSeen) = "Quit"
                    -> "Quit"
              [] rd_last # "ReadErr" /\ ~(rd_seen.events # <<>> /\ callback(LastSeen) = "Quit")
                 /\ Undecoded # <<>> -> "Err"
              [] OTHER -> IF rd_seen.events = <<>> THEN "Quit" ELSE callback(LastSeen)
        /\ (rd_result = "Err" /\ rd_last # "ReadErr") => ~ClientEvent_deserialize(Undecoded).ok

\* receive_keys dispatched a key and returned an error for the bytes after it,
\* which hold only the beginning of an event
C32_Witness ==
    /\ KeysReturned
    /\ rd_seen.events = <<EventKey(NoTarget, MkKey("Char", 97))>>
    /\ Undecoded # <<>>
    /\ IsPrefix(Undecoded, ClientEvent_serialize(EventCommand(NoTarget, QuitText)))
    /\ rd_result = "Err"

(***************************************************************************)
(* Properties of the navigation history (checked under SpecNav).           *)
(***************************************************************************)
\* C33: after any sequence of add_snapshot, move_in_history and
\* remove_snapshots_with_buffer_handle calls, a history in state
\* IterIndex(i) has i <= snapshots.len(), and move_in_history reads no
\* snapshot index outside the snapshot list.
C33_IterIndexInBounds ==
    /\ nav_client.navigation_history.state.kind = "IterIndex"
          => nav_client.navigation_history.state.index
                 <= Len(nav_client.navigation_history.snapshots)
    /\ ~nav_last.panicked

\* a removal took snapshots at and below the iteration index, and a move
\* read a snapshot of a history that had lost snapshots
C33_Witness ==
    /\ nav_last.op = "Backward"
    /\ nav_last.read # <<>>
    /\ nav_last.before.state.kind = "IterIndex"
    /\ nav_removed # {}
    /\ Len(nav_client.navigation_history.snapshots) >= 2

C33_WitnessRemoved ==
    /\ nav_last.op = "remove"
    /\ nav_last.before.state.kind = "IterIndex"
    /\ nav_last.before.state.index > 0
    /\ nav_client.navigation_history.state.index < nav_last.before.state.index
    /\ Len(nav_client.navigation_history.snapshots) > 0

\* the latest call is a Forward that directly follows a Backward made from
\* state Insert with at least one snapshot and a buffer on show
BackThenForth ==
    /\ nav_last.op = "Forward"
    /\ nav_last.origin # <<>>
    /\ nav_last.origin[1].state.kind = "Insert"
    /\ nav_last.origin[1].len >= 1
    /\ nav_last.origin[1].view # <<>>

\* C34: for a client in state Insert with at least one snapshot,
\* move_in_history Backward followed immediately by move_in_history Forward
\* puts the client back on the buffer and main cursor it had just before
\* the Backward move.
C34_BackwardThenForward ==
    BackThenForth => CurrentView(nav_client) = nav_last.origin[1].view

\* the Backward took the client to another buffer and the Forward selected
\* the snapshot the Backward had added
C34_Witness ==
    /\ BackThenForth
    /\ nav_last.selected # <<>>
    /\ nav_last.view # <<>>
    /\ nav_last.view[1].buffer_handle # nav_last.origin[1].view[1].buffer_handle
    /\ nav_last.origin[1].len = 2

\* the view before the Backward was the last snapshot already: the
\* Backward adds nothing and the Forward has nowhere to go
C34_WitnessNoPush ==
    /\ BackThenForth
    /\ nav_last.selected = <<>>
    /\ nav_last.origin[1].len = Len(nav_last.before.snapshots)

\* C35: after remove_snapshots_with_buffer_handle(b) no snapshot of the
\* history refers to buffer b, the remaining snapshots are the others in
\* their order, and no later move_in_history selects a snapshot of b unless
\* b is snapshotted again.
C35_RemovedBufferGone ==
    /\ nav_last.op = "remove" =>
          nav_client.navigation_history.snapshots
              = SelectSeq(nav_last.before.snapshots,
                          LAMBDA s : s.buffer_handle # nav_last.arg)
    /\ \A b \in nav_removed :
          /\ \A i \in DOMAIN nav_client.navigation_history.snapshots :
                nav_client.navigation_history.snapshots[i].buffer_handle # b
          /\ \A i \in DOMAIN nav_last.selected : nav_last.selected[i].buffer_handle # b

\* two snapshots of the removed buffer went, one of the other buffer stayed,
\* and the history was iterating
C35_Witness ==
    /\ nav_last.op = "remove"
    /\ Len(nav_last.before.snapshots) = 3
    /\ Len(nav_client.navigation_history.snapshots) = 1
    /\ nav_last.before.state.kind = "IterIndex"

\* a move after a removal selected a snapshot of the other buffer
C35_WitnessMove ==
    /\ nav_last.op \in {"Forward", "Backward"}
    /\ nav_last.selected # <<>>
    /\ nav_removed # {}

(***************************************************************************)
(* Properties of the lsp client's diagnostics (checked under SpecDiag).    *)
(***************************************************************************)
\* C36: after each textDocument/publishDiagnostics notification for a path,
\* buffer_diagnostics for the buffer attached to that path returns exactly
\* the diagnostics of that notification, sorted by range start, and no
\* diagnostic of an earlier notification.
C36_LatestDiagnosticsOnly ==
    diag_last.uri # <<>> =>
        buffer_diagnostics(diag_collections, diag_last.uri[1])
            = sort_by_key(diag_last.diagnostics)

(***************************************************************************)
(* Properties of the string pool (checked under SpecPool).                 *)
(***************************************************************************)
\* C37: every string a builtin command acquires from the editor's string
\* pool is released before the command returns, on the success path and on
\* every error path: after each command the pool holds every string that
\* was made for it.
C37_AcquiredStringsReleased == string_pool.free = string_pool.made

(***************************************************************************)
(* Properties of the mode around execute-keys (checked under SpecExec).    *)
(***************************************************************************)
\* the latest execute-keys had a client to run the keys for, and so gave
\* the keys to BufferedKeys::parse
KeysParsed(last) ==
    /\ ~(last.flag.set /\ ~ClientHandle_from_str(last.flag.text).ok)
    /\ (IF last.flag.set THEN ClientHandle_from_str(last.flag.text).handle
        ELSE last.client) # 0

\* the keys of the latest execute-keys parsed and ran
KeysRan(last) == KeysParsed(last) /\ BufferedKeys_parse(last.keys, <<>>).ok

\* C38: execute-keys leaves the editor mode as it found it. The keys run
\* starting from the default mode; when the command returns, with Continue,
\* Quit or QuitAll, the mode kind equals the one before the command whatever
\* mode the keys ended in; when the keys fail to parse (the command has a
\* client and gives them to the parser) the mode is not changed and an
\* error is returned.
C38_ModeAsFound ==
    [][exec_count' = exec_count + 1
       => /\ editor'.mode = editor.mode
          /\ KeysRan(exec_last')
                => /\ exec_last'.res \in {CmdOk("None"), CmdOk("Quit"), CmdOk("QuitAll")}
                   /\ \A c \in ClientHandles :
                         /\ exec_last'.keys = <<104>>
                               => editor'.buffers[c] = editor.buffers[c]
                         /\ exec_last'.keys = <<105, 104>>
                               => editor'.buffers[c] \in
                                     {editor.buffers[c], Append(editor.buffers[c], 104)}
          /\ (KeysParsed(exec_last') /\ ~BufferedKeys_parse(exec_last'.keys, <<>>).ok)
                => /\ exec_last'.res = CmdErr("BufferedKeysParseError")
                   /\ editor' = editor
      ]_vars

\* in Insert mode a client ran execute-keys ih, which ends in Insert mode
\* after running from Normal mode: the i was not inserted, the command
\* returned Quit and the editor is in Insert mode as before
C38_Witness ==
    /\ exec_last.run
    /\ exec_last.client = 1
    /\ exec_last.flag = NoFlag
    /\ exec_last.keys = <<105, 104>>
    /\ exec_last.res = CmdOk("Quit")
    /\ editor.mode = "Insert"
    /\ editor.buffers[1] = <<104>>
    /\ exec_count = 1

\* the keys did not parse: an error, and the mode of before
C38_WitnessParseError ==
    /\ exec_last.run
    /\ exec_last.keys = <<60, 101>>
    /\ exec_last.res = CmdErr("BufferedKeysParseError")
    /\ editor.mode = "Insert"

(***************************************************************************)
(* Properties of the `map` command (checked under SpecMap).                *)
(***************************************************************************)
Inside(span, token) == token.from <= span.from /\ span.to <= token.to

\* C39: when map fails to parse a key, the span of the reported
\* KeyParseError lies inside the token of the argument that holds the bad
\* key: inside <from> for a ParseKeyMapError::From and inside <to> for a
\* ParseKeyMapError::To.
C39_SpanInsideArgument ==
    /\ map_out.which = "From" => Inside(map_out.token, map_from.token)
    /\ map_out.which = "To" => Inside(map_out.token, map_to.token)

=============================================================================
